---------------------------- MODULE Spec2Model ----------------------------
(***************************************************************************)
(* A model of BeatCrafterAI's checkpointed pipeline executor:              *)
(*   run_pipeline            src/beatcrafter_ai/run_pipeline.py            *)
(*   BeatSaverDownloader     src/beatcrafter_ai/downloader/...             *)
(*   MapExtractor            src/beatcrafter_ai/extractor/...              *)
(*   AudioConverter          src/ai_beat_saber/converter/convert_audio.py  *)
(*   DataFormatter, MapPruner (their effect on the staging directories)    *)
(*                                                                         *)
(* Files are identified by the song id they belong to; a directory is the  *)
(* set of song ids it holds a file (or sub-directory) for.  asyncio is     *)
(* cooperative: the code between two awaits is one action.                 *)
(***************************************************************************)
EXTENDS Naturals, Integers, Sequences, FiniteSets, TLC

\* ------------------------------------------------------------------ bounds
\* songs of the remote listing in a pipeline run
NSongs == 2
\* work units of the stand-alone runs of download_all / convert_all
NUnits == 6
\* audio files of the stand-alone run of convert_all
NAudio == 3
\* max_concurrent passed to AudioConverter in the stand-alone run
SmallConcurrent == 2
\* pipeline invocations on one output root
MaxRuns == 2
\* faults over all pipeline runs: a work unit that fails, a crash, an error
\* that ends the run
MaxFaults == 1
\* beatmaps of one info.dat, and the beatmap sets they are spread over
MaxBeatmaps == 2
MaxSets == 2

\* -------------------------------------------------------- program constants
MAX_CONCURRENT_DOWNLOADS == 5
DEFAULT_MAX_CONCURRENT == 5

VARIABLES
    \* ---- the output root on disk
    dirs,             \* staging directory name -> set of song ids present
    valid,            \* extracted song dirs holding info.dat and an audio file
    combined_info,    \* combined song dirs holding info.dat
    combined_midi,    \* combined song dirs holding midi_output/<id>.mid
    checkpoint_file,  \* pipeline_checkpoint.json: [state, data]
    logs,             \* extraction_results.json / conversion_results.json
    exists,           \* the directories that exist
    \* ---- the remote repository
    listing,          \* sequence of [page, id]: the entries of each page
    song_folder,      \* audio file -> the name of the directory it lies in
    truncated,        \* song ids whose last write of <id>.zip was cut short
    \* ---- the cleanup command (cleanup.py), its own process
    cleanup,          \* [at, ...]: where the command is and what it was given
    \* ---- MapPruner (prune_maps.py), called on its own
    pruner,           \* [at, ...]: the call, its arguments and what it returned
    \* ---- DataFormatter (format_data.py), called on its own
    formatter,        \* [at, ...]: the call, its arguments and what it returned
    \* ---- MapGenerator (generate_maps.py), called on its own
    generator,        \* [at, ...]: the call, the LLM's answer and what was written
    \* ---- run_pipeline (one process)
    pc, force, max_pages, generate, checkpoint, extracted_maps,
    \* ---- BeatSaverDownloader
    dl_pc, page, task_state, task_result, all_results, semaphore,
    \* ---- AudioConverter
    cv_pc, max_concurrent, audio_input, cv_state, results, cv_semaphore,
    \* ---- history (what the run did; never read by the program)
    requested,        \* download units that issued their request
    attempted,        \* stage -> units the stage dispatched in this run
    failed,           \* stage -> units that failed in this run
    produced,         \* stage -> files the stage wrote in this run
    stage_state,      \* stage -> NotStarted, Skipped, Running, Committed, Failed
    loaded,           \* the checkpoint as loaded at run start
    dirs0,            \* the staging directories at run start
    ckpt0,            \* checkpoint_file when the current stage began
    runs,             \* pipeline invocations so far
    faults,           \* faults in the runs that have ended
    exit_status       \* how the last run ended

proc_vars == <<pc, force, max_pages, generate, checkpoint, extracted_maps>>
tool_vars == <<pruner, formatter, generator>>
input_vars == <<listing, song_folder>>
env_vars  == <<input_vars, truncated, exists, cleanup, tool_vars>>
disk_vars == <<dirs, valid, combined_info, combined_midi, checkpoint_file, logs>>
dl_vars   == <<dl_pc, page, task_state, task_result, all_results, semaphore, requested>>
cv_vars   == <<cv_pc, max_concurrent, audio_input, cv_state, results, cv_semaphore>>
unit_vars == <<attempted, failed, produced>>
run_vars  == <<stage_state, loaded, dirs0, ckpt0, runs, faults, exit_status>>
vars == <<disk_vars, env_vars, proc_vars, dl_vars, cv_vars, unit_vars, run_vars>>

\* ------------------------------------------------------------- vocabulary
DirNames == {"downloads", "extracted", "midi", "combined", "formatted", "pruned"}
\* the name of a file that no stage produces (it is no song's id)
Sentinel == NSongs + NUnits + 1
Units == DOMAIN listing
PageUnits(p) == {u \in Units : listing[u].page = p}
song_id(u) == listing[u].id

\* the entries of the remote listing: n songs, pages of per_page entries each
Listing(n, per_page) ==
    [u \in 1..n |-> [page |-> (u - 1) \div per_page, id |-> u]]

\* the units of page p in listing order, as a sequence
PageSeq(p) ==
    LET IsOnPage(u) == listing[u].page = p
    IN  SelectSeq([u \in 1..Len(listing) |-> u], IsOnPage)

\* the fault model: a pipeline run may meet a fault while fewer than
\* MaxFaults have happened, the failed units of the run in progress
\* included; the stand-alone runs of download_all and convert_all (no
\* pipeline process) are unrestricted
FailedUnits ==
    Cardinality(failed["Download"]) + Cardinality(failed["Extract"])
    + Cardinality(failed["Convert"]) + Cardinality(failed["Format"])
    + Cardinality(failed["Prune"])
MayFail(n) == pc.at = "idle" \/ faults + FailedUnits + n <= MaxFaults

\* =================================================== BeatSaverDownloader

\* download_all, lines 115-119: setup_directories, all_results = []
download_all_begin ==
    /\ dl_pc = "called"
    /\ dl_pc' = IF max_pages > 0 THEN "fetch" ELSE "returned"
    /\ page' = 0
    /\ all_results' = <<>>
    /\ task_state' = [u \in Units |-> "none"]
    /\ task_result' = [u \in Units |-> FALSE]
    /\ requested' = {}
    /\ UNCHANGED <<semaphore, disk_vars, env_vars, proc_vars, cv_vars, unit_vars, run_vars>>

\* a task that was created and has not run yet is in the event loop's ready
\* queue: it runs to its first suspension before any awaited I/O completes
ready_queue_empty == \A u \in Units : task_state[u] # "new"

\* the states of download_all in which the event loop runs its tasks: while
\* process_page awaits the page, and while it awaits gather
loop_yielded == dl_pc \in {"fetch", "gather"}

\* process_page, lines 79-101: the page is fetched and one task per entry is
\* created; the tasks first run when gather suspends process_page
process_page_fetched ==
    /\ dl_pc = "fetch"
    /\ ready_queue_empty
    /\ task_state' = [u \in Units |->
                        IF u \in PageUnits(page) THEN "new" ELSE task_state[u]]
    /\ dl_pc' = "gather"
    /\ UNCHANGED <<page, task_result, all_results, semaphore, requested,
                   disk_vars, env_vars, proc_vars, cv_vars, unit_vars, run_vars>>

\* process_page, lines 105-107: fetch_ranked_maps raised; the page yields []
process_page_failed ==
    /\ dl_pc = "fetch"
    /\ ready_queue_empty
    /\ page' = page + 1
    /\ dl_pc' = IF page + 1 < max_pages THEN "fetch" ELSE "returned"
    /\ UNCHANGED <<task_state, task_result, all_results, semaphore, requested, disk_vars, env_vars, proc_vars, cv_vars, unit_vars, run_vars>>

\* what download_map returns: True after the write, False from the handler
download_map_result_always_true(ok) == TRUE
download_map_result(ok) == ok

\* the semaphore value after `async with self.semaphore` is left
release_keeps_slot(value) == value
release(value) == value + 1

\* the semaphore admits a task only while its value is positive
locked_never(value) == FALSE
locked(value) == value = 0

\* download_map, lines 44-46: `zip_path.exists()`
zip_path_exists_never(u) == FALSE
zip_path_exists(u) == song_id(u) \in dirs["downloads"]

\* download_map, lines 44-54: up to the first suspension.  Tasks start in
\* creation order (the event loop's ready queue is FIFO).
download_map_start(u) ==
    /\ loop_yielded
    /\ task_state[u] = "new"
    /\ \A v \in Units : v < u => task_state[v] # "new"
    /\ attempted' = [attempted EXCEPT !["Download"] = @ \cup {u}]
    /\ IF zip_path_exists(u)
       THEN /\ task_state' = [task_state EXCEPT ![u] = "done"]
            /\ task_result' = [task_result EXCEPT ![u] = TRUE]
            /\ UNCHANGED <<semaphore, requested>>
       ELSE IF ~locked(semaphore)
       THEN /\ task_state' = [task_state EXCEPT ![u] = "requesting"]
            /\ semaphore' = semaphore - 1
            /\ requested' = requested \cup {u}
            /\ UNCHANGED task_result
       ELSE /\ task_state' = [task_state EXCEPT ![u] = "waiting"]
            /\ UNCHANGED <<semaphore, requested, task_result>>
    /\ UNCHANGED <<dl_pc, page, all_results, failed, produced,
                   disk_vars, env_vars, proc_vars, cv_vars, run_vars>>

\* download_map, line 51: a waiter is woken by a release and takes the slot
download_map_wake(u) ==
    /\ loop_yielded
    /\ task_state[u] = "waiting"
    /\ ~locked(semaphore)
    /\ task_state' = [task_state EXCEPT ![u] = "requesting"]
    /\ semaphore' = semaphore - 1
    /\ requested' = requested \cup {u}
    /\ UNCHANGED <<dl_pc, page, task_result, all_results,
                   disk_vars, env_vars, proc_vars, cv_vars, unit_vars, run_vars>>

\* download_map, lines 64-70: what the downloads directory holds after the
\* handler; an error while writing may have left a partial <song_id>.zip,
\* which the handler unlinks
unlink_partial_skipped(files, z) == files \cup {z}
unlink_partial(files, z) == files \ {z}

\* download_map, lines 54-70: the response arrived.  ok: the zip is written
\* and True returned; otherwise the handler unlinks the zip and returns False.
download_map_finish(u, ok) ==
    /\ loop_yielded
    /\ task_state[u] = "requesting"
    /\ ok \/ MayFail(1)
    /\ task_state' = [task_state EXCEPT ![u] = "done"]
    /\ task_result' = [task_result EXCEPT ![u] = download_map_result(ok)]
    /\ dirs' = [dirs EXCEPT !["downloads"] =
                   IF ok THEN @ \cup {song_id(u)}
                   ELSE unlink_partial(@, song_id(u))]
    /\ failed' = [failed EXCEPT !["Download"] = IF ok THEN @ ELSE @ \cup {u}]
    /\ produced' = [produced EXCEPT !["Download"] =
                       IF ok THEN @ \cup {song_id(u)} ELSE @]
    /\ semaphore' = release(semaphore)
    /\ truncated' = truncated \ {song_id(u)}
    /\ UNCHANGED <<dl_pc, page, all_results, requested, attempted,
                   valid, combined_info, combined_midi,
                   checkpoint_file, logs,
                   input_vars, exists, cleanup, tool_vars,
                   proc_vars, cv_vars, run_vars>>

\* process_page, lines 101-103, and download_all, lines 120-124: gather
\* returns the results in task order; the next page, or the return
process_page_gathered ==
    /\ dl_pc = "gather"
    /\ \A u \in PageUnits(page) : task_state[u] = "done"
    /\ all_results' = all_results \o
                      [i \in 1..Len(PageSeq(page)) |-> task_result[PageSeq(page)[i]]]
    /\ page' = page + 1
    /\ dl_pc' = IF page + 1 < max_pages THEN "fetch" ELSE "returned"
    /\ UNCHANGED <<task_state, task_result, semaphore, requested,
                   disk_vars, env_vars, proc_vars, cv_vars, unit_vars, run_vars>>

\* process_page, lines 86-100 and 105-107: entry k of the fetched page makes
\* the loop raise (an entry without "id", an entry or a version that is no
\* object) after a task was created for every entry before it; the handler
\* returns [] and the tasks created are not awaited
process_page_raised(k) ==
    /\ dl_pc = "fetch"
    /\ ready_queue_empty
    /\ k \in PageUnits(page)
    /\ task_state' = [u \in Units |->
                        IF u \in PageUnits(page) /\ u < k THEN "new"
                        ELSE task_state[u]]
    /\ page' = page + 1
    /\ dl_pc' = IF page + 1 < max_pages THEN "fetch" ELSE "returned"
    /\ UNCHANGED <<task_result, all_results, semaphore, requested,
                   disk_vars, env_vars, proc_vars, cv_vars, unit_vars, run_vars>>

DownloaderNext ==
    \/ download_all_begin
    \/ process_page_fetched
    \/ process_page_failed
    \/ \E u \in Units : download_map_start(u)
    \/ \E u \in Units : download_map_wake(u)
    \/ \E u \in Units, ok \in BOOLEAN : download_map_finish(u, ok)
    \/ process_page_gathered


\* ======================================================== AudioConverter

\* the audio files convert_all finds under songs_dir (rglob *.egg, *.ogg):
\* one per extracted song directory that holds an audio file
audio_files == valid

\* _generate_output_path, lines 33-49: <output_dir>/<parent folder name>.mid,
\* given here by the folder name
generate_output_path(a) == song_folder[a]

\* a conversion result: the MIDI path <output_dir>/<folder>.mid, or the
\* exception; of the three messages only "Input file not found: <audio_path>"
\* names the file it is about
PathResult(a) == [kind |-> "Path", folder |-> generate_output_path(a)]
ExceptionResult(why, a) ==
    [kind |-> "Exception", message |-> why,
     folder |-> IF why = "Input file not found" THEN a ELSE 0]

\* convert_all, lines 224-230: the loop over as_completed appends the path
\* the task returned, or the exception it raised
as_completed_drops_exceptions(res, outcome) ==
    IF outcome.kind = "Exception" THEN res ELSE Append(res, outcome)
as_completed_append(res, outcome) == Append(res, outcome)

\* convert_all, lines 209-220
convert_all_begin ==
    /\ cv_pc = "called"
    /\ results' = <<>>
    /\ cv_state' = [a \in DOMAIN cv_state |->
                       IF a \in audio_files THEN "new" ELSE "none"]
    /\ audio_input' = [a \in DOMAIN audio_input |-> "unread"]
    /\ cv_pc' = IF audio_files = {} THEN "returned" ELSE "as_completed"
    /\ UNCHANGED <<max_concurrent, cv_semaphore, disk_vars, env_vars, proc_vars,
                   dl_vars, unit_vars, run_vars>>

\* what convert_audio may find at audio_path: no file, or a file that starts
\* with one of these four bytes
Headers == {"OggS", "RIFF", "INVA"}
\* convert_audio, lines 85-98: the checks made before the semaphore; the
\* message of the exception raised, or "ok"
check_input_accepts(file_exists, header) == "ok"
check_input(file_exists, header) ==
    IF ~file_exists THEN "Input file not found"
    ELSE IF header \notin {"OggS", "RIFF"} THEN "Invalid audio file format"
    ELSE "ok"
\* what was at audio_path when convert_audio looked
input_class(file_exists, header) ==
    IF ~file_exists THEN "missing"
    ELSE IF header \in {"OggS", "RIFF"} THEN "audio" ELSE "invalid"

\* convert_audio, lines 85-107: the checks, then the semaphore
convert_audio_start(a, file_exists, header) ==
    /\ cv_pc = "as_completed"
    /\ cv_state[a] = "new"
    /\ input_class(file_exists, header) = "audio" \/ MayFail(1)
    /\ attempted' = [attempted EXCEPT !["Convert"] = @ \cup {a}]
    /\ audio_input' = [audio_input EXCEPT ![a] = input_class(file_exists, header)]
    /\ IF check_input(file_exists, header) # "ok"
       THEN /\ cv_state' = [cv_state EXCEPT ![a] = "done"]
            /\ results' = as_completed_append(results,
                                 ExceptionResult(check_input(file_exists, header), a))
            /\ failed' = [failed EXCEPT !["Convert"] = @ \cup {a}]
            /\ UNCHANGED cv_semaphore
       ELSE IF ~locked(cv_semaphore)
       THEN /\ cv_state' = [cv_state EXCEPT ![a] = "converting"]
            /\ cv_semaphore' = cv_semaphore - 1
            /\ UNCHANGED <<results, failed>>
       ELSE /\ cv_state' = [cv_state EXCEPT ![a] = "waiting"]
            /\ UNCHANGED <<cv_semaphore, results, failed>>
    /\ UNCHANGED <<cv_pc, max_concurrent, produced, disk_vars, env_vars, proc_vars,
                   dl_vars, run_vars>>

\* convert_audio, line 104: a waiter takes the released slot
convert_audio_wake(a) ==
    /\ cv_pc = "as_completed"
    /\ cv_state[a] = "waiting"
    /\ ~locked(cv_semaphore)
    /\ cv_state' = [cv_state EXCEPT ![a] = "converting"]
    /\ cv_semaphore' = cv_semaphore - 1
    /\ UNCHANGED <<cv_pc, max_concurrent, audio_input, results, disk_vars,
                   env_vars, proc_vars,
                   dl_vars, unit_vars, run_vars>>

\* convert_audio, lines 104-109, and convert_all, lines 224-230: the executor
\* finished; the slot is released on both paths; as_completed hands the
\* outcome to the loop in completion order
convert_audio_finish(a, ok) ==
    /\ cv_pc = "as_completed"
    /\ cv_state[a] = "converting"
    /\ ok \/ MayFail(1)
    /\ cv_state' = [cv_state EXCEPT ![a] = "done"]
    /\ cv_semaphore' = release(cv_semaphore)
    /\ results' = as_completed_append(results,
                         IF ok THEN PathResult(a)
                         ELSE ExceptionResult("Failed to convert audio file", a))
    /\ dirs' = [dirs EXCEPT !["midi"] =
                   IF ok THEN @ \cup {generate_output_path(a)} ELSE @]
    /\ failed' = [failed EXCEPT !["Convert"] = IF ok THEN @ ELSE @ \cup {a}]
    /\ produced' = [produced EXCEPT !["Convert"] =
                       IF ok THEN @ \cup {generate_output_path(a)} ELSE @]
    /\ UNCHANGED <<cv_pc, max_concurrent, audio_input, attempted,
                   valid, combined_info, combined_midi,
                   checkpoint_file, logs,
                   env_vars, proc_vars, dl_vars, run_vars>>

\* convert_all, lines 232-233
convert_all_return ==
    /\ cv_pc = "as_completed"
    /\ \A a \in DOMAIN cv_state : cv_state[a] \in {"none", "done"}
    /\ cv_pc' = "returned"
    /\ UNCHANGED <<max_concurrent, audio_input, cv_state, results, cv_semaphore,
                   disk_vars, env_vars, proc_vars, dl_vars, unit_vars, run_vars>>

ConverterNext ==
    \/ convert_all_begin
    \/ \E a \in DOMAIN cv_state, file_exists \in BOOLEAN, header \in Headers :
          convert_audio_start(a, file_exists, header)
    \/ \E a \in DOMAIN cv_state : convert_audio_wake(a)
    \/ \E a \in DOMAIN cv_state, ok \in BOOLEAN : convert_audio_finish(a, ok)
    \/ convert_all_return

\* ------------------------------------------------- vocabulary of the run
CkptStages == {"Download", "Extract", "Convert", "Format", "Prune"}
Stages == CkptStages \cup {"Combine", "Generate"}
EmptyUnits == [S \in CkptStages |-> {}]
Idle == [stage |-> "none", at |-> "idle"]
Absent == [state |-> "absent", data |-> {}]
NoLogs == [S \in {"Extract", "Convert"} |-> [state |-> "absent"]]
\* the targets of the cleanup command and the directory each one names
\* (cleanup.py, lines 52-62); all but `training` lie under the base directory
CleanTargets ==
    {"downloads", "extracted", "midi", "formatted", "generated", "logs",
     "combined", "pruned", "training"}
BaseDir == "base_dir"
UnderBase == CleanTargets \ {"training"}
\* run_pipeline, lines 46-47: the base directory and the staging directories
\* exist once a run has started
PipelineDirs == UnderBase \cup {BaseDir}
NoCleanup ==
    [at |-> "off", call |-> "none", remove_structure |-> FALSE, whole |-> FALSE,
     selected |-> {}, todo |-> {}, directory |-> "none", keep_structure |-> FALSE]

\* no call of MapPruner is under way
NoPruner ==
    [at |-> "off", target_difficulty |-> "none", map_data |-> <<>>,
     pruned_data |-> <<>>, input_dir |-> <<>>, todo |-> {}, written |-> {},
     reported |-> {}, output_dir |-> {},
     second_difficulty |-> "none", pruned_again |-> <<>>]
\* no call of DataFormatter is under way
NoFormatter ==
    [at |-> "off", call |-> "none", map_dir |-> <<>>, result |-> <<>>,
     songs_dir |-> <<>>, todo |-> {}, written |-> {}, reported |-> {}]
\* no call of MapGenerator is under way
NoGenerator ==
    [at |-> "off", song_name |-> 0, maps_data |-> <<>>, next |-> 1,
     output_path |-> {}, beatmaps |-> <<>>, info_dat |-> "None",
     difficulty_files |-> <<>>, error |-> "None"]
ToolsOff ==
    pruner = NoPruner /\ formatter = NoFormatter /\ generator = NoGenerator

\* what the output root holds: the staging directories and the checkpoint
Snapshot ==
    [dirs |-> dirs, valid |-> valid, combined_info |-> combined_info,
     combined_midi |-> combined_midi, checkpoint |-> checkpoint_file,
     exists |-> exists, logs |-> logs]
NoSnapshot ==
    [dirs |-> [d \in DirNames |-> {}], valid |-> {}, combined_info |-> {},
     combined_midi |-> {}, checkpoint |-> [state |-> "absent", data |-> {}],
     exists |-> PipelineDirs, logs |-> NoLogs]

\* ============================================== download_all / convert_all
\* stand-alone runs of the two concurrent stages, with more units than slots

InitDownloader(ids) ==
    /\ listing \in {Listing(NUnits, NUnits), Listing(NUnits, (NUnits + 1) \div 2)}
    /\ song_folder = [a \in ids |-> a]
    /\ truncated = {}
    /\ max_pages = listing[Len(listing)].page + 1
    /\ dirs \in {[d \in DirNames |-> IF d = "downloads" THEN have ELSE {}] :
                    have \in {{}, {2}, 1..NUnits}}
    /\ valid = {}
    /\ dl_pc = "called" /\ cv_pc = "off"
    /\ max_concurrent = DEFAULT_MAX_CONCURRENT
    /\ audio_input = [a \in ids |-> "unread"]
    /\ cv_state = [a \in ids |-> "none"]

InitConverter(ids) ==
    /\ listing = Listing(NUnits, NUnits)
    /\ song_folder = [a \in ids |-> a]
    /\ truncated = {}
    /\ max_pages = 1
    /\ dirs = [d \in DirNames |->
                 IF d \in {"downloads", "extracted"} THEN 1..NAudio ELSE {}]
    /\ valid = 1..NAudio
    /\ dl_pc = "off" /\ cv_pc = "called"
    /\ max_concurrent = SmallConcurrent
    /\ audio_input = [a \in ids |-> "unread"]
    /\ cv_state = [a \in ids |-> "none"]

InitTasks ==
    /\ \/ InitDownloader(1..NUnits)
       \/ InitConverter(1..NUnits)
    /\ combined_info = {} /\ combined_midi = {}
    /\ checkpoint_file = Absent /\ logs = NoLogs
    /\ pc = Idle /\ force = FALSE /\ generate = FALSE
    /\ exists = PipelineDirs /\ cleanup = NoCleanup /\ ToolsOff
    /\ checkpoint = {} /\ extracted_maps = {}
    /\ page = 0 /\ all_results = <<>>
    /\ task_state = [u \in Units |-> "none"]
    /\ task_result = [u \in Units |-> FALSE]
    /\ semaphore = MAX_CONCURRENT_DOWNLOADS
    /\ results = <<>> /\ cv_semaphore = max_concurrent
    /\ requested = {}
    /\ attempted = EmptyUnits /\ failed = EmptyUnits /\ produced = EmptyUnits
    /\ stage_state = [S \in Stages |-> "NotStarted"]
    /\ loaded = {} /\ dirs0 = Snapshot /\ ckpt0 = Absent
    /\ runs = 0 /\ faults = 0 /\ exit_status = "none"

NextTasks == DownloaderNext \/ ConverterNext

SpecTasks == InitTasks /\ [][NextTasks]_vars

\* the scheduling of the two stages: the event loop runs every task that is
\* ready (a created task, a waiter whose semaphore has a free slot, the
\* coroutine whose awaited page or gather is complete), and every single
\* request and every single conversion comes to an end, with either outcome
FairTasks ==
    /\ WF_vars(download_all_begin)
    /\ WF_vars(process_page_fetched \/ process_page_failed)
    /\ WF_vars(process_page_gathered)
    /\ \A u \in 1..NUnits :
          /\ WF_vars(download_map_start(u))
          /\ WF_vars(download_map_wake(u))
          /\ WF_vars(\E ok \in BOOLEAN : download_map_finish(u, ok))
    /\ WF_vars(convert_all_begin)
    /\ WF_vars(convert_all_return)
    /\ \A a \in 1..NUnits :
          /\ WF_vars(\E file_exists \in BOOLEAN, header \in Headers :
                        convert_audio_start(a, file_exists, header))
          /\ WF_vars(convert_audio_wake(a))
          /\ WF_vars(\E ok \in BOOLEAN : convert_audio_finish(a, ok))

FairSpecTasks == SpecTasks /\ FairTasks

\* download_all alone over two pages, any entry of which may be one that
\* process_page cannot handle; the pages are long enough for the tasks left
\* over from the first page and those of the second to exceed the slots
InitPages ==
    /\ listing = Listing(NUnits + 2, (NUnits + 2) \div 2)
    /\ song_folder = [a \in 1..NUnits |-> a]
    /\ truncated = {}
    /\ max_pages = 2
    /\ dirs \in {[d \in DirNames |-> IF d = "downloads" THEN have ELSE {}] :
                    have \in {{}, {2}}}
    /\ valid = {} /\ combined_info = {} /\ combined_midi = {}
    /\ checkpoint_file = Absent /\ logs = NoLogs
    /\ pc = Idle /\ force = FALSE /\ generate = FALSE
    /\ exists = PipelineDirs /\ cleanup = NoCleanup /\ ToolsOff
    /\ checkpoint = {} /\ extracted_maps = {}
    /\ dl_pc = "called" /\ page = 0 /\ all_results = <<>>
    /\ task_state = [u \in Units |-> "none"]
    /\ task_result = [u \in Units |-> FALSE]
    /\ semaphore = MAX_CONCURRENT_DOWNLOADS
    /\ requested = {}
    /\ cv_pc = "off" /\ max_concurrent = DEFAULT_MAX_CONCURRENT
    /\ audio_input = [a \in 1..NUnits |-> "unread"]
    /\ cv_state = [a \in 1..NUnits |-> "none"]
    /\ results = <<>> /\ cv_semaphore = max_concurrent
    /\ attempted = EmptyUnits /\ failed = EmptyUnits /\ produced = EmptyUnits
    /\ stage_state = [S \in Stages |-> "NotStarted"]
    /\ loaded = {} /\ dirs0 = Snapshot /\ ckpt0 = Absent
    /\ runs = 0 /\ faults = 0 /\ exit_status = "none"

\* convert_all alone over every layout of the audio files: any number of
\* them may lie in the same directory (song.egg next to preview.ogg), or in
\* directories of the same name
InitLayout ==
    /\ listing = Listing(NUnits, NUnits)
    /\ song_folder \in {f \in [1..NUnits -> 1..NUnits] :
                           \A a \in 1..NUnits :
                              IF a \in 1..NAudio THEN f[a] \in 1..NAudio
                              ELSE f[a] = a}
    /\ truncated = {}
    /\ max_pages = 1
    /\ dirs = [d \in DirNames |->
                 IF d \in {"downloads", "extracted"} THEN 1..NAudio ELSE {}]
    /\ valid = 1..NAudio /\ combined_info = {} /\ combined_midi = {}
    /\ checkpoint_file = Absent /\ logs = NoLogs
    /\ pc = Idle /\ force = FALSE /\ generate = FALSE
    /\ exists = PipelineDirs /\ cleanup = NoCleanup /\ ToolsOff
    /\ checkpoint = {} /\ extracted_maps = {}
    /\ dl_pc = "off" /\ page = 0 /\ all_results = <<>>
    /\ task_state = [u \in Units |-> "none"]
    /\ task_result = [u \in Units |-> FALSE]
    /\ semaphore = MAX_CONCURRENT_DOWNLOADS
    /\ requested = {}
    /\ cv_pc = "called" /\ max_concurrent = SmallConcurrent
    /\ audio_input = [a \in 1..NUnits |-> "unread"]
    /\ cv_state = [a \in 1..NUnits |-> "none"]
    /\ results = <<>> /\ cv_semaphore = max_concurrent
    /\ attempted = EmptyUnits /\ failed = EmptyUnits /\ produced = EmptyUnits
    /\ stage_state = [S \in Stages |-> "NotStarted"]
    /\ loaded = {} /\ dirs0 = Snapshot /\ ckpt0 = Absent
    /\ runs = 0 /\ faults = 0 /\ exit_status = "none"

SpecLayout == InitLayout /\ [][ConverterNext]_vars

NextPages ==
    \/ DownloaderNext
    \/ \E k \in Units : process_page_raised(k)

SpecPages == InitPages /\ [][NextPages]_vars


\* ============================================================ run_pipeline

\* the fixed order of the stage blocks in run_pipeline
StageOrderSwapped ==
    <<"Extract", "Download", "Convert", "Combine", "Format", "Prune", "Generate">>
StageOrder ==
    <<"Download", "Extract", "Convert", "Combine", "Format", "Prune", "Generate">>

StageIndex(S) == CHOOSE i \in 1..Len(StageOrder) : StageOrder[i] = S
next_stage(S) == StageOrder[StageIndex(S) + 1]

\* the checkpoint key of a stage
flag(S) ==
    CASE S = "Download" -> "downloads_complete"
      [] S = "Extract"  -> "extraction_complete"
      [] S = "Convert"  -> "conversion_complete"
      [] S = "Format"   -> "formatting_complete"
      [] S = "Prune"    -> "pruning_complete"

\* the staging directory a stage writes
out_dir(S) ==
    CASE S = "Download" -> "downloads"
      [] S = "Extract"  -> "extracted"
      [] S = "Convert"  -> "midi"
      [] S = "Format"   -> "formatted"
      [] S = "Prune"    -> "pruned"

\* the stages that write a results log under output/logs
has_log(S) == S \in {"Extract", "Convert"}

At(S, ph) == pc = [stage |-> S, at |-> ph]
Goto(S, ph) == pc' = [stage |-> S, at |-> ph]
\* load_checkpoint, lines 19-24: {} when the file is absent; json.load raises
\* on a file that holds no complete JSON document
load_checkpoint_fails == checkpoint_file.state = "truncated"
load_checkpoint_forgets == {}
load_checkpoint == checkpoint_file.data

\* the process is gone: nothing remains of its memory, and the history of
\* the run is closed
ProcessEnds ==
    /\ pc' = Idle
    /\ force' = FALSE
    /\ generate' = FALSE
    /\ checkpoint' = {}
    /\ extracted_maps' = {}
    /\ dl_pc' = "off" /\ page' = 0 /\ all_results' = <<>>
    /\ task_state' = [u \in Units |-> "none"]
    /\ task_result' = [u \in Units |-> FALSE]
    /\ semaphore' = MAX_CONCURRENT_DOWNLOADS
    /\ requested' = {}
    /\ cv_pc' = "off" /\ results' = <<>>
    /\ cv_state' = [a \in DOMAIN cv_state |-> "none"]
    /\ max_concurrent' = DEFAULT_MAX_CONCURRENT
    /\ audio_input' = [a \in DOMAIN audio_input |-> "unread"]
    /\ cv_semaphore' = DEFAULT_MAX_CONCURRENT
    /\ attempted' = EmptyUnits /\ failed' = EmptyUnits /\ produced' = EmptyUnits
    /\ stage_state' = [S \in Stages |-> "NotStarted"]
    /\ loaded' = {}
    /\ dirs0' = NoSnapshot
    /\ ckpt0' = Absent

\* run_pipeline, lines 33-65: the directories, the checkpoint (not loaded
\* when --force is given), the components with their semaphores
StartRun(f) ==
    /\ pc = Idle
    /\ runs < MaxRuns
    /\ runs' = runs + 1
    /\ IF ~f /\ load_checkpoint_fails
       THEN /\ exit_status' = "error"
            /\ UNCHANGED <<pc, force, checkpoint, loaded, dirs0, ckpt0>>
       ELSE /\ force' = f
            /\ checkpoint' = IF f THEN {} ELSE load_checkpoint
            /\ Goto(StageOrder[1], "begin")
            /\ exit_status' = "running"
            /\ loaded' = checkpoint'
            /\ dirs0' = Snapshot
            /\ ckpt0' = checkpoint_file
    /\ UNCHANGED <<disk_vars, env_vars, max_pages, generate, extracted_maps, dl_vars, cv_vars,
                   unit_vars, stage_state, faults>>

\* `if not checkpoint.get(<flag>) or args.force`, lines 68, 83, 109, 194, 219
should_run_always(S) == TRUE
should_run(S) == flag(S) \notin checkpoint \/ force

\* the head of a stage block: run it, or skip it
stage_begin(S) ==
    /\ At(S, "begin")
    /\ ckpt0' = checkpoint_file
    /\ IF should_run(S)
       THEN /\ stage_state' = [stage_state EXCEPT ![S] = "Running"]
            /\ Goto(S, IF force THEN "clean" ELSE "work")
       ELSE /\ stage_state' = [stage_state EXCEPT ![S] = "Skipped"]
            /\ IF has_log(S) THEN Goto(S, "read_log")
                             ELSE Goto(next_stage(S), "begin")
    /\ UNCHANGED <<disk_vars, env_vars, force, max_pages, generate, checkpoint,
                   extracted_maps, dl_vars, cv_vars, unit_vars,
                   loaded, dirs0, runs, faults, exit_status>>

\* shutil.rmtree(dir); dir.mkdir(): what the directory holds afterwards
rmtree_skipped(files) == files
rmtree(files) == {}

\* `if args.force and dirs[...].exists()`, lines 71-74, 86-89, 112-115,
\* 197-199, 222-224
stage_clean(S) ==
    /\ At(S, "clean")
    /\ dirs' = [dirs EXCEPT ![out_dir(S)] = rmtree(@)]
    /\ valid' = IF S = "Extract" THEN rmtree(valid) ELSE valid
    /\ Goto(S, "work")
    /\ UNCHANGED <<combined_info, combined_midi, checkpoint_file, logs, env_vars,
                   force, max_pages, generate, checkpoint, extracted_maps,
                   dl_vars, cv_vars, unit_vars, run_vars>>

\* what follows a stage's work: Extract and Convert write their results log
\* (lines 93-98, 151-159) before the flag is set; the others set it at once
after_work_no_log(S) == "commit"
after_work(S) == IF has_log(S) THEN "log_open" ELSE "commit"

\* line 76: await downloader.download_all()
download_call ==
    /\ At("Download", "work")
    /\ dl_pc' = "called"
    /\ Goto("Download", "await")
    /\ UNCHANGED <<disk_vars, env_vars, force, max_pages, generate, checkpoint,
                   extracted_maps, page, task_state, task_result, all_results,
                   semaphore, requested, cv_vars, unit_vars, run_vars>>

download_returned ==
    /\ At("Download", "await")
    /\ dl_pc = "returned"
    /\ Goto("Download", after_work("Download"))
    /\ UNCHANGED <<disk_vars, env_vars, force, max_pages, generate, checkpoint,
                   extracted_maps, dl_vars, cv_vars, unit_vars, run_vars>>

\* the zips in the downloads directory that hold only the beginning of the
\* response: zipfile cannot open them
truncated_zips == truncated \cap dirs["downloads"]

\* extract_all, line 101: self.zip_dir.glob('*.zip')
zip_files == dirs["downloads"] \ {Sentinel}

\* extract_all, lines 105-106: only a result without errors is appended
results_append_always(res, z, sound) == res \cup {z}
results_append(res, z, sound) ==
    IF sound THEN res \cup {z} ELSE res

\* extract_all, lines 103-106: the zips are handled one after the other, in
\* the order of the directory listing (here: by id)
\* extract_map, lines 41-92: the song directory is recreated; a sound archive
\* leaves info.dat and the audio file in it, a bad one sets has_errors
extract_map(z, sound) ==
    /\ At("Extract", "work")
    /\ z \in zip_files \ attempted["Extract"]
    /\ \A y \in zip_files \ attempted["Extract"] : z <= y
    /\ sound => z \notin truncated_zips
    /\ sound \/ z \in truncated_zips \/ MayFail(1)
    /\ dirs' = [dirs EXCEPT !["extracted"] = @ \cup {z}]
    /\ valid' = IF sound THEN valid \cup {z} ELSE valid \ {z}
    /\ attempted' = [attempted EXCEPT !["Extract"] = @ \cup {z}]
    /\ failed' = [failed EXCEPT !["Extract"] = IF sound THEN @ ELSE @ \cup {z}]
    /\ produced' = [produced EXCEPT !["Extract"] = @ \cup {z}]
    /\ extracted_maps' = results_append(extracted_maps, z, sound)
    /\ UNCHANGED <<combined_info, combined_midi, checkpoint_file, logs,
                   env_vars, pc, force, max_pages, generate, checkpoint,
                   dl_vars, cv_vars, run_vars>>

\* extract_all, lines 100-108: every zip of the directory has been handled
extract_all_returned ==
    /\ At("Extract", "work")
    /\ zip_files \subseteq attempted["Extract"]
    /\ Goto("Extract", after_work("Extract"))
    /\ UNCHANGED <<disk_vars, env_vars, force, max_pages, generate, checkpoint,
                   extracted_maps, dl_vars, cv_vars, unit_vars, run_vars>>

\* line 133: await converter.convert_all()
convert_call ==
    /\ At("Convert", "work")
    /\ cv_pc' = "called"
    /\ Goto("Convert", "await")
    /\ UNCHANGED <<disk_vars, env_vars, force, max_pages, generate, checkpoint,
                   extracted_maps, dl_vars, max_concurrent, audio_input,
                   cv_state, results,
                   cv_semaphore, unit_vars, run_vars>>

convert_returned ==
    /\ At("Convert", "await")
    /\ cv_pc = "returned"
    /\ Goto("Convert", after_work("Convert"))
    /\ UNCHANGED <<disk_vars, env_vars, force, max_pages, generate, checkpoint,
                   extracted_maps, dl_vars, cv_vars, unit_vars, run_vars>>


\* the content of extraction_results.json, lines 95-98
ExtractionLog(maps) ==
    [state |-> "complete", total_extracted |-> Cardinality(maps), maps |-> maps]

\* lines 134-140 and the content of conversion_results.json, lines 153-159
successful_conversions ==
    {results[i].folder : i \in {j \in 1..Len(results) : results[j].kind = "Path"}}
failed_conversions == {j \in 1..Len(results) : results[j].kind = "Exception"}
ConversionLog ==
    [state |-> "complete",
     total_attempted |-> Cardinality(successful_conversions)
                         + Cardinality(failed_conversions),
     successful |-> Cardinality(successful_conversions),
     failed |-> Cardinality(failed_conversions),
     successful_files |-> successful_conversions]

\* open(<log>, 'w'), lines 94 and 152: the file is created or truncated
log_open(S) ==
    /\ At(S, "log_open")
    /\ logs' = [logs EXCEPT ![S] = [state |-> "truncated"]]
    /\ Goto(S, "log_write")
    /\ UNCHANGED <<dirs, valid, combined_info, combined_midi, checkpoint_file,
                   env_vars, force, max_pages, generate, checkpoint,
                   extracted_maps, dl_vars, cv_vars, unit_vars, run_vars>>

\* json.dump(..., f) and the close of the log, lines 95-98 and 153-159
log_write(S) ==
    /\ At(S, "log_write")
    /\ logs' = [logs EXCEPT ![S] = IF S = "Extract"
                                    THEN ExtractionLog(extracted_maps)
                                    ELSE ConversionLog]
    /\ Goto(S, "commit")
    /\ UNCHANGED <<dirs, valid, combined_info, combined_midi, checkpoint_file,
                   env_vars, force, max_pages, generate, checkpoint,
                   extracted_maps, dl_vars, cv_vars, unit_vars, run_vars>>

\* checkpoint[<flag>] = True, then save_checkpoint, line 28: open(file, 'w')
\* creates or truncates pipeline_checkpoint.json
commit_open(S) ==
    /\ At(S, "commit")
    /\ checkpoint' = checkpoint \cup {flag(S)}
    /\ checkpoint_file' = [state |-> "truncated", data |-> {}]
    /\ Goto(S, "save")
    /\ UNCHANGED <<dirs, valid, combined_info, combined_midi, logs, env_vars,
                   force, max_pages, generate, extracted_maps,
                   dl_vars, cv_vars, unit_vars, run_vars>>

\* save_checkpoint, line 29: json.dump and the close of the file; the stage
\* block ends and the next one begins
commit_write(S) ==
    /\ At(S, "save")
    /\ checkpoint_file' = [state |-> "complete", data |-> checkpoint]
    /\ stage_state' = [stage_state EXCEPT ![S] = "Committed"]
    /\ Goto(next_stage(S), "begin")
    /\ ckpt0' = checkpoint_file'
    /\ UNCHANGED <<dirs, valid, combined_info, combined_midi, logs, env_vars,
                   force, max_pages, generate, checkpoint, extracted_maps,
                   dl_vars, cv_vars, unit_vars,
                   loaded, dirs0, runs, faults, exit_status>>

\* an exception leaves run_pipeline: the process ends with an error
Abort ==
    /\ MayFail(1)
    /\ faults' = faults + FailedUnits + 1
    /\ ProcessEnds
    /\ exit_status' = "error"

\* the skip path of Extract and Convert, lines 104-106 and 166-170: the
\* results log of the earlier run is read back
read_log(S, readable) ==
    /\ At(S, "read_log")
    /\ IF logs[S].state = "complete" /\ readable
       THEN /\ Goto(next_stage(S), "begin")
            /\ extracted_maps' = IF S = "Extract" THEN logs[S].maps
                                                  ELSE extracted_maps
            /\ UNCHANGED <<force, max_pages, generate, checkpoint, dl_vars, cv_vars,
                           unit_vars, stage_state, loaded, dirs0, ckpt0,
                           faults, exit_status>>
       ELSE /\ Abort
            /\ UNCHANGED max_pages
    /\ UNCHANGED <<disk_vars, env_vars, runs>>

\* line 181: the directories of extracted/ (`glob("*")`, `is_dir()`)
extracted_dirs == dirs["extracted"] \ {Sentinel}

\* lines 189-191: the MIDI file is copied `if midi_file.exists()`
midi_output_always(ids) == ids
midi_output(ids) == ids \cap dirs["midi"]

\* lines 176-191: the combined directory is removed and rebuilt from the
\* directories of extracted/ and the MIDI files of midi/
combine ==
    /\ At("Combine", "begin")
    /\ dirs' = [dirs EXCEPT !["combined"] = rmtree(@) \cup extracted_dirs]
    /\ combined_info' = rmtree(combined_info) \cup valid
    /\ combined_midi' = rmtree(combined_midi) \cup midi_output(extracted_dirs)
    /\ stage_state' = [stage_state EXCEPT !["Combine"] = "Committed"]
    /\ ckpt0' = checkpoint_file
    /\ Goto(next_stage("Combine"), "begin")
    /\ UNCHANGED <<valid, checkpoint_file, logs, env_vars,
                   force, max_pages, generate, checkpoint, extracted_maps,
                   dl_vars, cv_vars, unit_vars, loaded, dirs0, runs, faults, exit_status>>

\* format_all, lines 134-151: one record per combined directory that has an
\* info.dat; a map whose formatting raises is reported and left out
format_all(bad) ==
    /\ At("Format", "work")
    /\ bad \subseteq combined_info
    /\ MayFail(Cardinality(bad))
    /\ dirs' = [dirs EXCEPT !["formatted"] = @ \cup (combined_info \ bad)]
    /\ attempted' = [attempted EXCEPT !["Format"] = combined_info]
    /\ failed' = [failed EXCEPT !["Format"] = bad]
    /\ produced' = [produced EXCEPT !["Format"] = combined_info \ bad]
    /\ Goto("Format", after_work("Format"))
    /\ UNCHANGED <<valid, combined_info, combined_midi, checkpoint_file, logs,
                   env_vars, force, max_pages, generate, checkpoint,
                   extracted_maps, dl_vars, cv_vars, run_vars>>

\* process_all, lines 148-177: one pruned record per formatted record that
\* has the target difficulty; the others are skipped or reported
process_all(bad) ==
    /\ At("Prune", "work")
    /\ bad \subseteq dirs["formatted"] \ {Sentinel}
    /\ MayFail(Cardinality(bad))
    /\ dirs' = [dirs EXCEPT !["pruned"] =
                   @ \cup ((dirs["formatted"] \ {Sentinel}) \ bad)]
    /\ attempted' = [attempted EXCEPT !["Prune"] = dirs["formatted"] \ {Sentinel}]
    /\ failed' = [failed EXCEPT !["Prune"] = bad]
    /\ produced' = [produced EXCEPT !["Prune"] =
                       (dirs["formatted"] \ {Sentinel}) \ bad]
    /\ Goto("Prune", after_work("Prune"))
    /\ UNCHANGED <<valid, combined_info, combined_midi, checkpoint_file, logs,
                   env_vars, force, max_pages, generate, checkpoint,
                   extracted_maps, dl_vars, cv_vars, run_vars>>

\* line 234: `if args.generate:`; the argument is first read here, and its
\* value is drawn here
generate_requested_always(g) == TRUE
generate_requested(g) == g

\* lines 234-235: --generate was given, the Generate block is entered
generate_enter(g) ==
    /\ At("Generate", "begin")
    /\ generate_requested(g)
    /\ generate' = g
    /\ stage_state' = [stage_state EXCEPT !["Generate"] = "Running"]
    /\ Goto("Generate", "work")
    /\ UNCHANGED <<disk_vars, env_vars, force, max_pages, checkpoint,
                   extracted_maps, dl_vars, cv_vars, unit_vars,
                   loaded, dirs0, ckpt0, runs, faults, exit_status>>

\* line 234: --generate was not given; run_pipeline returns
generate_skip(g) ==
    /\ At("Generate", "begin")
    /\ ~generate_requested(g)
    /\ faults' = faults + FailedUnits
    /\ ProcessEnds
    /\ exit_status' = "ok"
    /\ UNCHANGED <<disk_vars, env_vars, max_pages, runs>>

\* lines 236-241: the generator is constructed (its constructor raises
\* ValueError without an API key); generation itself is not implemented;
\* run_pipeline returns
MapGenerator_init(key_ok) ==
    /\ At("Generate", "work")
    /\ key_ok \/ MayFail(1)
    /\ faults' = faults + FailedUnits + (IF key_ok THEN 0 ELSE 1)
    /\ ProcessEnds
    /\ exit_status' = IF key_ok THEN "ok" ELSE "error"
    /\ UNCHANGED <<disk_vars, env_vars, max_pages, runs>>

\* a filesystem operation of run_pipeline fails (permission, disk full): the
\* rmtree/mkdir of a forced stage, the open or the write of a results log,
\* the open or the write of the checkpoint file
io_error(S) ==
    /\ pc.stage = S
    /\ pc.at \in {"clean", "log_open", "log_write", "commit", "save"}
    /\ Abort
    /\ UNCHANGED <<disk_vars, env_vars, max_pages, runs>>

\* the process is killed (crash, external interrupt): the disk stays as it is
crash ==
    /\ pc # Idle
    /\ MayFail(1)
    /\ faults' = faults + FailedUnits + 1
    /\ ProcessEnds
    /\ exit_status' = "crash"
    /\ UNCHANGED <<disk_vars, env_vars, max_pages, runs>>

\* download_map, line 60: the process is killed while write_bytes is writing
\* the response; the handler of line 64 does not run, the zip stays
crash_in_write(u) ==
    /\ At("Download", "await")
    /\ loop_yielded
    /\ task_state[u] = "requesting"
    /\ MayFail(1)
    /\ dirs' = [dirs EXCEPT !["downloads"] = @ \cup {song_id(u)}]
    /\ truncated' = truncated \cup {song_id(u)}
    /\ faults' = faults + FailedUnits + 1
    /\ ProcessEnds
    /\ exit_status' = "crash"
    /\ UNCHANGED <<valid, combined_info, combined_midi, checkpoint_file, logs,
                   input_vars, exists, cleanup, tool_vars, max_pages, runs>>

\* a new output root: the staging directories are empty, or each stage's
\* output directory already holds a file that no stage produces
Init ==
    /\ listing = Listing(NSongs, NSongs)
    /\ song_folder = [a \in 1..NSongs |-> a]
    /\ truncated = {}
    /\ max_pages = 1
    /\ dirs \in {[d \in DirNames |-> {}],
                 [d \in DirNames |-> IF d \in {out_dir(S) : S \in CkptStages}
                                      THEN {Sentinel} ELSE {}]}
    /\ valid = {} /\ combined_info = {} /\ combined_midi = {}
    /\ checkpoint_file = Absent
    /\ logs = NoLogs
    /\ pc = Idle /\ force = FALSE /\ generate = FALSE
    /\ exists = PipelineDirs /\ cleanup = NoCleanup /\ ToolsOff
    /\ checkpoint = {} /\ extracted_maps = {}
    /\ dl_pc = "off" /\ page = 0 /\ all_results = <<>>
    /\ task_state = [u \in Units |-> "none"]
    /\ task_result = [u \in Units |-> FALSE]
    /\ semaphore = MAX_CONCURRENT_DOWNLOADS
    /\ cv_pc = "off" /\ results = <<>>
    /\ max_concurrent = DEFAULT_MAX_CONCURRENT
    /\ audio_input = [a \in 1..NSongs |-> "unread"]
    /\ cv_state = [a \in 1..NSongs |-> "none"]
    /\ cv_semaphore = DEFAULT_MAX_CONCURRENT
    /\ requested = {}
    /\ attempted = EmptyUnits /\ failed = EmptyUnits /\ produced = EmptyUnits
    /\ stage_state = [S \in Stages |-> "NotStarted"]
    /\ loaded = {} /\ dirs0 = Snapshot /\ ckpt0 = Absent
    /\ runs = 0 /\ faults = 0 /\ exit_status = "none"

Next ==
    \/ \E f \in BOOLEAN : StartRun(f)
    \/ \E S \in CkptStages : stage_begin(S)
    \/ \E S \in CkptStages : stage_clean(S)
    \/ download_call
    \/ download_all_begin
    \/ process_page_fetched
    \/ process_page_failed
    \/ \E u \in Units : download_map_start(u)
    \/ \E u \in Units, ok \in BOOLEAN : download_map_finish(u, ok)
    \/ process_page_gathered
    \/ download_returned
    \/ \E z \in 1..NSongs, sound \in BOOLEAN : extract_map(z, sound)
    \/ extract_all_returned
    \/ convert_call
    \/ convert_all_begin
    \/ \E a \in DOMAIN cv_state, file_exists \in BOOLEAN, header \in Headers :
          convert_audio_start(a, file_exists, header)
    \/ \E a \in DOMAIN cv_state, ok \in BOOLEAN : convert_audio_finish(a, ok)
    \/ convert_all_return
    \/ convert_returned
    \/ \E S \in {"Extract", "Convert"} : log_open(S)
    \/ \E S \in {"Extract", "Convert"} : log_write(S)
    \/ \E S \in CkptStages : commit_open(S)
    \/ \E S \in CkptStages : commit_write(S)
    \/ \E S \in {"Extract", "Convert"}, readable \in BOOLEAN : read_log(S, readable)
    \/ combine
    \/ \E bad \in SUBSET (1..NSongs) : format_all(bad)
    \/ \E bad \in SUBSET (1..NSongs) : process_all(bad)
    \/ \E g \in BOOLEAN : generate_enter(g)
    \/ \E g \in BOOLEAN : generate_skip(g)
    \/ \E key_ok \in BOOLEAN : MapGenerator_init(key_ok)
    \/ \E S \in CkptStages : io_error(S)
    \/ crash

Spec == Init /\ [][Next]_vars

\* the pipeline when a kill may also fall inside the write of a zip
NextResume ==
    \/ Next
    \/ \E u \in Units : crash_in_write(u)

SpecResume == Init /\ [][NextResume]_vars


\* =============================================================== cleanup.py

\* clean_directory, lines 24-33: the directory itself stays exactly when
\* keep_structure is true
directory_survives_always(keep_structure) == TRUE
directory_survives(keep_structure) == keep_structure

\* clean_directory, lines 21-33, on the file system: nothing when the
\* directory does not exist; otherwise every entry (file or sub-directory) is
\* removed, and the directory too unless keep_structure
clean_directory(directory, keep_structure) ==
    IF directory \notin exists
    THEN UNCHANGED <<dirs, exists, valid, combined_info, combined_midi, logs>>
    ELSE /\ dirs' = [d \in DOMAIN dirs |-> IF d = directory THEN {} ELSE dirs[d]]
         /\ exists' = IF directory_survives(keep_structure)
                      THEN exists ELSE exists \ {directory}
         /\ valid' = IF directory = "extracted" THEN {} ELSE valid
         /\ combined_info' = IF directory = "combined" THEN {} ELSE combined_info
         /\ combined_midi' = IF directory = "combined" THEN {} ELSE combined_midi
         /\ logs' = IF directory = "logs" THEN NoLogs ELSE logs

\* a call of clean_directory by a program that imports it
clean_directory_call(directory, keep_structure) ==
    /\ cleanup.at = "idle"
    /\ clean_directory(directory, keep_structure)
    /\ cleanup' = [cleanup EXCEPT !.at = "done", !.call = "clean_directory",
                                  !.directory = directory,
                                  !.keep_structure = keep_structure]
    /\ UNCHANGED <<checkpoint_file, input_vars, truncated, tool_vars, proc_vars, dl_vars, cv_vars,
                   unit_vars, run_vars>>

\* main, lines 113-121: with --remove-structure and no --targets (or `all`
\* among them) the base and the training directory are removed whole
remove_everything ==
    /\ dirs' = [d \in DOMAIN dirs |-> {}]
    /\ exists' = {}
    /\ valid' = {} /\ combined_info' = {} /\ combined_midi' = {}
    /\ logs' = NoLogs
    /\ checkpoint_file' = Absent

\* clean_pipeline_outputs, lines 64-66: no targets, or `all` among them,
\* stands for every target
targets_to_clean(targets) ==
    IF targets = {} \/ "all" \in targets THEN CleanTargets ELSE targets

\* the order of the keys of `directories`, lines 52-62; the targets of the
\* command line are taken in this order too
TargetOrder ==
    <<"downloads", "extracted", "midi", "formatted", "generated", "logs",
      "combined", "pruned", "training">>
\* a name that is no key of `directories` (lines 79-80); the command line
\* refuses it, a caller of clean_pipeline_outputs can pass it
UnknownTarget == "unknown"
LoopOrder == TargetOrder \o <<UnknownTarget>>
first_target(todo) ==
    LoopOrder[CHOOSE i \in 1..Len(LoopOrder) :
                 /\ LoopOrder[i] \in todo
                 /\ \A j \in 1..(i - 1) : LoopOrder[j] \notin todo]

\* main, lines 82-127: the command line is parsed; with --remove-structure
\* and no --targets (or `all` among them) the base and the training
\* directory are removed whole; otherwise clean_pipeline_outputs is called,
\* which unlinks the checkpoint file (lines 68-72) and cleans the targets;
\* targets = {} stands for no --targets
main(targets, remove_structure) ==
    /\ cleanup.at = "idle"
    /\ LET whole == targets = {} \/ "all" \in targets
       IN  IF remove_structure /\ whole
           THEN /\ remove_everything
                /\ cleanup' = [cleanup EXCEPT !.at = "done", !.call = "main",
                                              !.remove_structure = TRUE,
                                              !.whole = TRUE,
                                              !.selected = CleanTargets]
           ELSE /\ checkpoint_file' = Absent
                /\ cleanup' = [cleanup EXCEPT !.at = "loop", !.call = "main",
                                              !.remove_structure = remove_structure,
                                              !.whole = whole,
                                              !.selected = targets_to_clean(targets),
                                              !.todo = targets_to_clean(targets)]
                /\ UNCHANGED <<dirs, exists, valid, combined_info,
                               combined_midi, logs>>
    /\ UNCHANGED <<input_vars, truncated, tool_vars, proc_vars, dl_vars, cv_vars, unit_vars,
                   run_vars>>

\* clean_pipeline_outputs called by a program that imports it, with an
\* explicit list of targets: the checkpoint file is unlinked (lines 68-72),
\* then the loop runs
clean_pipeline_outputs(targets) ==
    /\ cleanup.at = "idle"
    /\ checkpoint_file' = Absent
    /\ cleanup' = [cleanup EXCEPT !.at = "loop", !.call = "clean_pipeline_outputs",
                                  !.selected = targets_to_clean(targets),
                                  !.todo = targets_to_clean(targets)]
    /\ UNCHANGED <<dirs, exists, valid, combined_info, combined_midi, logs>>
    /\ UNCHANGED <<input_vars, truncated, tool_vars, proc_vars, dl_vars, cv_vars, unit_vars,
                   run_vars>>

\* clean_directory's parameter `keep_structure: bool = True`, line 14, which
\* the call at line 77 leaves to its default
keep_structure_off == FALSE
keep_structure_default == TRUE

\* clean_pipeline_outputs, lines 74-80: one turn of `for target in targets`;
\* a name that is no key of `directories` gets a warning and nothing else
clean_target(target) ==
    /\ cleanup.at = "loop"
    /\ target = first_target(cleanup.todo)
    /\ IF target \in CleanTargets
       THEN clean_directory(target, keep_structure_default)
       ELSE UNCHANGED <<dirs, exists, valid, combined_info, combined_midi, logs>>
    /\ cleanup' = [cleanup EXCEPT !.todo = @ \ {target},
                                  !.at = IF cleanup.todo = {target}
                                         THEN "done" ELSE "loop"]
    /\ UNCHANGED <<checkpoint_file, input_vars, truncated, tool_vars, proc_vars, dl_vars, cv_vars,
                   unit_vars, run_vars>>

\* the output root the command finds: left by pipeline runs (every directory
\* holds the files of the songs), freshly created, not created at all, or
\* with some directories missing
InitCleanup ==
    /\ exists \in {CleanTargets \cup {BaseDir}, PipelineDirs,
                   PipelineDirs \ {"extracted", "logs"}, {}}
    /\ \E full \in BOOLEAN :
          /\ dirs = [d \in CleanTargets |->
                        IF full /\ d \in exists THEN 1..NSongs ELSE {}]
          /\ checkpoint_file = IF full /\ BaseDir \in exists
                               THEN [state |-> "complete",
                                     data |-> {flag(S) : S \in CkptStages}]
                               ELSE Absent
          /\ logs = IF full /\ "logs" \in exists
                    THEN [S \in {"Extract", "Convert"} |-> ExtractionLog(1..NSongs)]
                    ELSE NoLogs
    /\ valid = dirs["extracted"]
    /\ combined_info = dirs["combined"] /\ combined_midi = dirs["combined"]
    /\ cleanup = [NoCleanup EXCEPT !.at = "idle"] /\ ToolsOff
    /\ listing = Listing(NSongs, NSongs) /\ max_pages = 1
    /\ song_folder = [a \in 1..NSongs |-> a]
    /\ truncated = {}
    /\ pc = Idle /\ force = FALSE /\ generate = FALSE
    /\ checkpoint = {} /\ extracted_maps = {}
    /\ dl_pc = "off" /\ page = 0 /\ all_results = <<>>
    /\ task_state = [u \in Units |-> "none"]
    /\ task_result = [u \in Units |-> FALSE]
    /\ semaphore = MAX_CONCURRENT_DOWNLOADS
    /\ cv_pc = "off" /\ results = <<>>
    /\ max_concurrent = DEFAULT_MAX_CONCURRENT
    /\ audio_input = [a \in 1..NSongs |-> "unread"]
    /\ cv_state = [a \in 1..NSongs |-> "none"]
    /\ cv_semaphore = DEFAULT_MAX_CONCURRENT
    /\ requested = {}
    /\ attempted = EmptyUnits /\ failed = EmptyUnits /\ produced = EmptyUnits
    /\ stage_state = [S \in Stages |-> "NotStarted"]
    /\ loaded = {} /\ dirs0 = Snapshot /\ ckpt0 = checkpoint_file
    /\ runs = 0 /\ faults = 0 /\ exit_status = "none"

NextCleanup ==
    \/ \E d \in CleanTargets, keep \in BOOLEAN : clean_directory_call(d, keep)
    \/ \E targets \in SUBSET (CleanTargets \cup {"all"}), rs \in BOOLEAN :
          main(targets, rs)
    \/ \E targets \in SUBSET (CleanTargets \cup {UnknownTarget}) \ {{}} :
          clean_pipeline_outputs(targets)
    \/ \E t \in CleanTargets \cup {UnknownTarget} : clean_target(t)

SpecCleanup == InitCleanup /\ [][NextCleanup]_vars



\* ------------------------------------------ cleanup on a root in use
\* the cleanup command is started on the output root of the pipeline, between
\* two steps of a run or between two runs
cleanup_started ==
    /\ cleanup = NoCleanup
    /\ cleanup' = [NoCleanup EXCEPT !.at = "idle"]
    /\ UNCHANGED <<disk_vars, input_vars, truncated, exists, tool_vars,
                   proc_vars, dl_vars, cv_vars, unit_vars, run_vars>>

\* the --targets given to that command (without --remove-structure)
SharedTargets == {{"logs"}}

\* the pipeline is not between the open and the close of a file it writes
\* (an unlink at that moment would leave the writer with a file that has no
\* name; those interleavings are left out)
files_closed == pc.at \notin {"save", "log_write"}

NextShared ==
    \/ Next
    \/ cleanup_started
    \/ \E targets \in SharedTargets : files_closed /\ main(targets, FALSE)
    \/ \E t \in CleanTargets : files_closed /\ clean_target(t)

SpecShared == Init /\ [][NextShared]_vars

\* everything but the tool variables
rest_vars ==
    <<disk_vars, input_vars, truncated, exists, cleanup, proc_vars, dl_vars,
      cv_vars,
      unit_vars, run_vars>>

\* the pipeline, the downloader, the converter and the cleanup command are
\* not running, on an output root that holds nothing
ProgramsOff ==
    /\ listing = Listing(NSongs, NSongs) /\ max_pages = 1
    /\ song_folder = [a \in 1..NSongs |-> a]
    /\ truncated = {}
    /\ dirs = [d \in DirNames |-> {}]
    /\ valid = {} /\ combined_info = {} /\ combined_midi = {}
    /\ checkpoint_file = Absent /\ logs = NoLogs
    /\ exists = PipelineDirs /\ cleanup = NoCleanup
    /\ pc = Idle /\ force = FALSE /\ generate = FALSE
    /\ checkpoint = {} /\ extracted_maps = {}
    /\ dl_pc = "off" /\ page = 0 /\ all_results = <<>>
    /\ task_state = [u \in Units |-> "none"]
    /\ task_result = [u \in Units |-> FALSE]
    /\ semaphore = MAX_CONCURRENT_DOWNLOADS
    /\ requested = {}
    /\ cv_pc = "off" /\ max_concurrent = DEFAULT_MAX_CONCURRENT
    /\ audio_input = [a \in 1..NSongs |-> "unread"]
    /\ cv_state = [a \in 1..NSongs |-> "none"]
    /\ results = <<>> /\ cv_semaphore = DEFAULT_MAX_CONCURRENT
    /\ attempted = EmptyUnits /\ failed = EmptyUnits /\ produced = EmptyUnits
    /\ stage_state = [S \in Stages |-> "NotStarted"]
    /\ loaded = {} /\ dirs0 = NoSnapshot /\ ckpt0 = Absent
    /\ runs = 0 /\ faults = 0 /\ exit_status = "none"

\* ============================================================ MapPruner
\* prune_maps.py: prune_map as a function of a formatted record and a target
\* difficulty, and process_all over a directory of records

\* the value of a key that is absent (dict.get without a default)
None == "None"

\* str.lower() on the strings of the model
LowerCase ==
    [x \in {"Expert", "EXPERT", "Easy", "EASY", "bombNotes", "_customData",
             "Info.dat"} |->
        CASE x = "Expert" -> "expert"
          [] x = "Info.dat" -> "info.dat"
          [] x = "EXPERT" -> "expert"
          [] x = "Easy" -> "easy"
          [] x = "EASY" -> "easy"
          [] x = "bombNotes" -> "bombnotes"
          [] x = "_customData" -> "_customdata"]
lower(x) == IF x \in DOMAIN LowerCase THEN LowerCase[x] ELSE x

\* `substring in key` for the three substrings prune_maps.py looks for
contains(substring, key) ==
    CASE substring = "notes" -> key \in {"_notes", "bombnotes"}
      [] substring = "obstacles" -> key \in {"_obstacles"}
      [] substring = "version" -> key \in {"_version"}

\* the entries of _difficultyBeatmaps an info.dat of the model may hold: two
\* Expert beatmaps with different files, one without a file name, one Easy
Beatmaps ==
    {[_difficulty |-> "Expert", _beatmapFilename |-> "ExpertStandard.dat"],
     [_difficulty |-> "EXPERT", _beatmapFilename |-> "ExpertOneSaber.dat"],
     [_difficulty |-> "expert", _beatmapFilename |-> None],
     [_difficulty |-> "Easy", _beatmapFilename |-> "EasyStandard.dat"]}
\* the fields of a difficulty file
DifficultyFields ==
    {"_version", "_notes", "bombNotes", "_obstacles", "_events", "_customData",
     "_waypoints"}
\* the difficulties of a formatted record: file name -> fields of the file
DifficultyMaps ==
    {[f \in D |-> DifficultyFields] :
        D \in {{}, {"ExpertOneSaber.dat", "EasyStandard.dat"},
               {"ExpertStandard.dat", "ExpertOneSaber.dat", "EasyStandard.dat"}}}
Targets == {"expert", "EASY"}

\* the lists of at most k beatmaps
BeatmapLists(k) == UNION {[1..n -> Beatmaps] : n \in 0..k}
BeatmapSet(l) ==
    [_beatmapCharacteristicName |-> "Standard", _difficultyBeatmaps |-> l]
\* the lists of n beatmap sets that hold at most k beatmaps together
RECURSIVE BeatmapSets(_, _)
BeatmapSets(n, k) ==
    IF n = 0 THEN {<<>>}
    ELSE UNION {{<<BeatmapSet(l)>> \o rest : rest \in BeatmapSets(n - 1, k - Len(l))} :
                   l \in BeatmapLists(k)}
\* the formatted records (format_data.py, lines 115-121) handed to prune_map;
\* of info.dat only _difficultyBeatmapSets is modelled
MapRecords ==
    {[info |-> [_difficultyBeatmapSets |-> sets], difficulties |-> d] :
        sets \in UNION {BeatmapSets(n, MaxBeatmaps) : n \in 0..MaxSets},
        d \in DifficultyMaps}

\* _prune_info, lines 43-55: in each set the beatmaps of the target
\* difficulty, compared in lower case; a set without one is left out
matches_exact(diff_map, target_difficulty) ==
    diff_map._difficulty = target_difficulty
matches(diff_map, target_difficulty) ==
    lower(diff_map._difficulty) = lower(target_difficulty)
pruned_beatmaps(beatmap_set, target_difficulty) ==
    LET keep(diff_map) == matches(diff_map, target_difficulty)
    IN  SelectSeq(beatmap_set._difficultyBeatmaps, keep)
prune_info(info, target_difficulty) ==
    LET pruned(beatmap_set) ==
            [_beatmapCharacteristicName |-> beatmap_set._beatmapCharacteristicName,
             _difficultyBeatmaps |-> pruned_beatmaps(beatmap_set, target_difficulty)]
        all == [i \in 1..Len(info._difficultyBeatmapSets) |->
                   pruned(info._difficultyBeatmapSets[i])]
        nonempty(beatmap_set) == beatmap_set._difficultyBeatmaps # <<>>
    IN  [_difficultyBeatmapSets |-> SelectSeq(all, nonempty)]

\* _prune_difficulties, lines 75-82: the inner loop stops at the first
\* matching beatmap of a set, the outer one at the first set where that
\* beatmap has a file name
first_match(beatmap_set, target_difficulty) ==
    LET l == pruned_beatmaps(beatmap_set, target_difficulty)
    IN  IF l = <<>> THEN None ELSE l[1]._beatmapFilename
target_filename(info, target_difficulty) ==
    LET sets == info._difficultyBeatmapSets
        named == {i \in 1..Len(sets) : first_match(sets[i], target_difficulty) # None}
    IN  IF named = {} THEN None
        ELSE first_match(sets[CHOOSE i \in named : \A j \in named : i <= j],
                         target_difficulty)

\* _prune_difficulties, lines 90-108: the fields kept of the target file
keeps_every_field(key) == TRUE
keeps_field(key) ==
    \/ contains("notes", lower(key))
    \/ contains("obstacles", lower(key))
    \/ contains("version", lower(key))
\* _prune_difficulties, lines 72-109
prune_difficulties(difficulties, target_difficulty, info) ==
    LET name == target_filename(info, target_difficulty)
    IN  IF name = None \/ name \notin DOMAIN difficulties
        THEN [f \in {} |-> {}]
        ELSE [f \in {name} |-> {key \in difficulties[name] : keeps_field(key)}]

\* prune_map, lines 111-140, for a record that has `info` and `difficulties`
prune_map(map_data, target_difficulty) ==
    LET info == prune_info(map_data.info, target_difficulty)
    IN  [info |-> info,
         difficulties |-> prune_difficulties(map_data.difficulties,
                                             target_difficulty, info)]

\* a call of prune_map
prune_map_call ==
    /\ pruner.at = "prune_map"
    /\ pruner' = [pruner EXCEPT
                     !.at = "returned",
                     !.pruned_data = prune_map(pruner.map_data,
                                               pruner.target_difficulty)]
    /\ UNCHANGED <<rest_vars, formatter, generator>>

\* the difficulties a record that prune_map returned is pruned to again: the
\* targets, and another spelling of one of them
SecondTargets == Targets \cup {"Expert"}

\* a second call of prune_map, on the record the first call returned
prune_map_again(target_difficulty) ==
    /\ pruner.at = "returned"
    /\ DOMAIN pruner.pruned_data # {}
    /\ pruner' = [pruner EXCEPT
                     !.at = "returned again",
                     !.second_difficulty = target_difficulty,
                     !.pruned_again = prune_map(pruner.pruned_data,
                                                target_difficulty)]
    /\ UNCHANGED <<rest_vars, formatter, generator>>

\* what a file of the input directory may hold: a formatted record, text that
\* json.load rejects, or JSON that is no record (prune_map raises on it)
Unreadable == [kind |-> "unreadable"]
NotARecord == [kind |-> "not a record"]
FileContents ==
    {Unreadable, NotARecord}
    \cup {r \in MapRecords :
            /\ Len(r.info._difficultyBeatmapSets) = 1
            /\ Len(r.info._difficultyBeatmapSets[1]._difficultyBeatmaps) = 1}

\* process_all, lines 159-162: the record is written unless its pruned info
\* has no beatmap set or its pruned difficulties are empty
has_difficulty_always(pruned_data) == TRUE
has_difficulty(pruned_data) ==
    /\ pruned_data.info._difficultyBeatmapSets # <<>>
    /\ DOMAIN pruned_data.difficulties # {}

\* process_all, lines 148-177: one turn of the loop over glob("*.json"), in
\* the order the directory yields the files
process_all_file(json_file) ==
    /\ pruner.at = "process_all"
    /\ json_file \in pruner.todo
    /\ LET map_data == pruner.input_dir[json_file]
           raises == map_data \in {Unreadable, NotARecord}
           writes == IF raises THEN FALSE
                     ELSE has_difficulty(prune_map(map_data,
                                                   pruner.target_difficulty))
       IN  pruner' = [pruner EXCEPT
                         !.todo = @ \ {json_file},
                         !.reported = IF raises THEN @ \cup {json_file} ELSE @,
                         !.written = IF writes THEN @ \cup {json_file} ELSE @,
                         !.output_dir = IF writes THEN @ \cup {json_file} ELSE @]
    /\ UNCHANGED <<rest_vars, formatter, generator>>

\* process_all, line 148: the loop is over
process_all_return ==
    /\ pruner.at = "process_all"
    /\ pruner.todo = {}
    /\ pruner' = [pruner EXCEPT !.at = "returned"]
    /\ UNCHANGED <<rest_vars, formatter, generator>>

InitPrune ==
    /\ \/ \E r \in MapRecords, d \in Targets :
             pruner = [NoPruner EXCEPT !.at = "prune_map", !.map_data = r,
                                       !.target_difficulty = d]
       \/ \E files \in [1..NSongs -> FileContents], d \in Targets,
             old \in {{}, {1}} :
             pruner = [NoPruner EXCEPT !.at = "process_all", !.input_dir = files,
                                       !.target_difficulty = d,
                                       !.todo = 1..NSongs, !.output_dir = old]
    /\ formatter = NoFormatter /\ generator = NoGenerator
    /\ ProgramsOff

NextPrune ==
    \/ prune_map_call
    \/ \E d \in SecondTargets : prune_map_again(d)
    \/ \E json_file \in 1..NSongs : process_all_file(json_file)
    \/ process_all_return

SpecPrune == InitPrune /\ [][NextPrune]_vars

\* ========================================================== DataFormatter
\* format_data.py: format_map as a function of what a map directory holds, and
\* format_all over the entries of the songs directory

\* the *.dat files a map directory can hold besides info.dat; the glob is
\* case sensitive on the extension, the comparison with "info.dat" is not
DatFiles == {"EasyStandard.dat", "Info.dat"}

\* where the MIDI file of a map directory is, if anywhere: the pipeline's midi
\* directory, the directory's own midi_output, the legacy data/midi; a file
\* that is there may be one mido cannot parse
MidiPlaces == {"none", "midi", "midi_output", "data/midi", "unparsable"}

\* an entry of the songs directory: a plain file, or a map directory
NotADirectory ==
    [is_dir |-> FALSE, info_dat |-> "absent", dat_files |-> {}, midi |-> "none"]
MapDirs ==
    [is_dir : {TRUE}, info_dat : {"absent", "json", "garbage"},
     dat_files : SUBSET DatFiles, midi : MidiPlaces]

\* format_map, lines 69-71: info_path.exists()
info_path_exists(map_dir) == map_dir.info_dat # "absent"

\* format_map, lines 79-83: every *.dat whose lowered name is not info.dat
load_every_dat(map_dir) == map_dir.dat_files
load_difficulties(map_dir) ==
    {dat_file \in map_dir.dat_files : lower(dat_file) # "info.dat"}

\* format_map, lines 89-105: the first place that holds the MIDI file
midi_to_text(map_dir) == IF map_dir.midi = "none" THEN None ELSE "midi text"

\* format_map, lines 59-125: an exception, or the formatted record
format_map(name, map_dir) ==
    IF ~info_path_exists(map_dir)
    THEN [kind |-> "raised", error |-> "ValueError"]
    ELSE IF map_dir.info_dat = "garbage"
    THEN [kind |-> "raised", error |-> "JSONDecodeError"]
    ELSE IF map_dir.midi = "unparsable"
    THEN [kind |-> "raised", error |-> "mido"]
    ELSE [kind |-> "record", song_id |-> name, info |-> map_dir.info_dat,
          difficulties |-> load_difficulties(map_dir),
          midi_data |-> midi_to_text(map_dir)]

\* a caller's format_map(map_dir)
format_map_call ==
    /\ formatter.at = "called" /\ formatter.call = "format_map"
    /\ formatter' = [formatter EXCEPT
                        !.at = "returned",
                        !.result = format_map(1, formatter.map_dir)]
    /\ UNCHANGED <<rest_vars, pruner, generator>>

\* format_all, lines 135-149: one entry of songs_dir.iterdir()
format_all_entry(name) ==
    /\ formatter.at = "called" /\ formatter.call = "format_all"
    /\ name \in formatter.todo
    /\ LET map_dir == formatter.songs_dir[name]
           tried == map_dir.is_dir /\ info_path_exists(map_dir)
           formatted_map == format_map(name, map_dir)
           raises == tried /\ formatted_map.kind = "raised"
           writes == tried /\ formatted_map.kind = "record"
       IN  formatter' = [formatter EXCEPT
                            !.todo = @ \ {name},
                            !.result = IF writes THEN Append(@, formatted_map)
                                       ELSE @,
                            !.written = IF writes THEN @ \cup {name} ELSE @,
                            !.reported = IF raises THEN @ \cup {name} ELSE @]
    /\ UNCHANGED <<rest_vars, pruner, generator>>

\* format_all, lines 150-151: the loop is over
format_all_return ==
    /\ formatter.at = "called" /\ formatter.call = "format_all"
    /\ formatter.todo = {}
    /\ formatter' = [formatter EXCEPT !.at = "returned"]
    /\ UNCHANGED <<rest_vars, pruner, generator>>

\* the entries format_all is run over: plain files and map directories with
\* at most one difficulty file
SongsDirEntries ==
    {NotADirectory} \cup
    {d \in MapDirs : d.dat_files \subseteq {"EasyStandard.dat"}
                     /\ d.midi \in {"none", "midi", "unparsable"}}

InitFormat ==
    /\ \/ \E d \in MapDirs :
             formatter = [NoFormatter EXCEPT !.at = "called",
                                             !.call = "format_map",
                                             !.map_dir = d]
       \/ \E entries \in [1..NSongs -> SongsDirEntries] :
             formatter = [NoFormatter EXCEPT !.at = "called",
                                             !.call = "format_all",
                                             !.songs_dir = entries,
                                             !.todo = 1..NSongs]
    /\ pruner = NoPruner /\ generator = NoGenerator
    /\ ProgramsOff

NextFormat ==
    \/ format_map_call
    \/ \E name \in 1..NSongs : format_all_entry(name)
    \/ format_all_return

SpecFormat == InitFormat /\ [][NextFormat]_vars

\* =========================================================== MapGenerator
\* generate_maps.py: generate_full_set as a loop over the keys of the object
\* the LLM's tool call carries

\* the largest number of keys of that object
MaxKeys == 3

\* the collections the tool schema requires (lines 190-240), and the names
\* generate_full_set has a rank for (lines 399-401)
SchemaKeys == {"_notes", "_obstacles", "_events"}
RankedNames == {"easy", "normal", "expert"}

\* json.loads of the tool call's arguments, line 277: an object, taken as the
\* list of its keys in document order; the reply is not checked against the
\* schema
MapObjects ==
    UNION {{o \in [1..n -> SchemaKeys \cup RankedNames] :
               \A i, j \in 1..n : o[i] = o[j] => i = j} : n \in 1..MaxKeys}

\* str.capitalize() on the keys of the model
capitalize(x) ==
    CASE x = "easy" -> "Easy"
      [] x = "normal" -> "Normal"
      [] x = "expert" -> "Expert"
      [] OTHER -> x

\* line 391: f"{diff_name.capitalize()}Standard.dat"
diff_filename(diff_name) == <<capitalize(diff_name), "Standard.dat">>

\* lines 399 and 401: the literal dict indexed by diff_name
has_rank(diff_name) == diff_name \in RankedNames

\* generate_full_set, lines 362-368: the LLM call, then mkdir of the output
\* path; _generate_maps_with_openai re-raises every error (lines 302-320)
generate_maps_with_openai ==
    /\ generator.at = "called"
    /\ \/ \E o \in MapObjects :
             generator' = [generator EXCEPT !.at = "loop", !.maps_data = o]
       \/ \E e \in {"OpenAIError", "ValueError"} :
             generator' = [generator EXCEPT !.at = "raised", !.error = e]
    /\ UNCHANGED <<rest_vars, pruner, formatter>>

\* generate_full_set, lines 389-406: one key of maps_data; the difficulty
\* file is written before the beatmap entry is built
generate_full_set_difficulty ==
    /\ generator.at = "loop"
    /\ generator.next <= Len(generator.maps_data)
    /\ LET diff_name == generator.maps_data[generator.next]
       IN  IF has_rank(diff_name)
           THEN generator' = [generator EXCEPT
                    !.output_path = @ \cup {diff_filename(diff_name)},
                    !.beatmaps = Append(@, diff_filename(diff_name)),
                    !.difficulty_files = Append(@, diff_name),
                    !.next = @ + 1]
           ELSE generator' = [generator EXCEPT
                    !.output_path = @ \cup {diff_filename(diff_name)},
                    !.at = "raised", !.error = "KeyError"]
    /\ UNCHANGED <<rest_vars, pruner, formatter>>

\* generate_full_set, lines 408-412: info.dat is written and the list returned
generate_full_set_return ==
    /\ generator.at = "loop"
    /\ generator.next > Len(generator.maps_data)
    /\ generator' = [generator EXCEPT
                        !.at = "returned",
                        !.output_path = @ \cup {<<"info.dat">>},
                        !.info_dat = generator.beatmaps]
    /\ UNCHANGED <<rest_vars, pruner, formatter>>

InitGenerate ==
    /\ \E song_name \in 1..NSongs :
          generator = [NoGenerator EXCEPT !.at = "called",
                                          !.song_name = song_name]
    /\ pruner = NoPruner /\ formatter = NoFormatter
    /\ ProgramsOff

NextGenerate ==
    \/ generate_maps_with_openai
    \/ generate_full_set_difficulty
    \/ generate_full_set_return

SpecGenerate == InitGenerate /\ [][NextGenerate]_vars

\* ================================================================ properties

\* C1: a checkpointed stage whose flag is true in the checkpoint loaded at
\* run start, in a run without --force, dispatches no work unit and its
\* output directory stays as it was when the run started; in every other
\* case the stage is executed when the run reaches it.
SkipLeavesStageUntouched ==
    \A S \in CkptStages :
        IF flag(S) \in loaded /\ ~force
        THEN /\ stage_state[S] \in {"NotStarted", "Skipped"}
             /\ attempted[S] = {}
             /\ produced[S] = {}
             /\ dirs[out_dir(S)] = dirs0.dirs[out_dir(S)]
             /\ S = "Extract" => valid = dirs0.valid
        ELSE /\ stage_state[S] # "Skipped"
             /\ pc # Idle /\ StageIndex(pc.stage) > StageIndex(S)
                    => stage_state[S] = "Committed"

\* the second run skips Download, whose directory holds a zip, and executes
\* Extract
SkipLeavesStageUntouchedWitness ==
    /\ ~force
    /\ flag("Download") \in loaded
    /\ stage_state["Download"] = "Skipped"
    /\ dirs["downloads"] \cap (1..NSongs) # {}
    /\ flag("Extract") \notin loaded
    /\ stage_state["Extract"] = "Running"
    /\ attempted["Extract"] # {}


CheckpointReplacedAtomically ==
    /\ checkpoint_file.state \in {"absent", "complete"}
    /\ ~load_checkpoint_fails

\* C4: when a run is interrupted while a checkpointed stage S is executing,
\* the checkpoint on disk does not have S's flag, in force and non-force
\* runs alike and whatever an earlier run left on disk.
InterruptLeavesStageUncommitted ==
    [][ ( /\ exit_status' = "crash"
          /\ pc.stage \in CkptStages
          /\ stage_state[pc.stage] = "Running" )
        => flag(pc.stage) \notin checkpoint_file'.data ]_vars

AtMostKInFlight ==
    /\ Cardinality({u \in Units : task_state[u] = "requesting"})
          <= MAX_CONCURRENT_DOWNLOADS
    /\ Cardinality({a \in DOMAIN cv_state : cv_state[a] = "converting"})
          <= max_concurrent

\* every slot of the download semaphore is taken and a further unit waits
AtMostKInFlightWitness ==
    /\ Cardinality({u \in Units : task_state[u] = "requesting"})
          = MAX_CONCURRENT_DOWNLOADS
    /\ \E u \in Units : task_state[u] = "waiting"


\* C7: a checkpointed stage run with N work units of which exactly one
\* fails still commits with its flag persisted, the result recorded for the
\* stage shows 1 failure and N-1 successes, and the run goes on to the next
\* stage.
OneFailureIsRecorded ==
    \A S \in CkptStages :
        ( /\ stage_state[S] = "Committed"
          /\ Cardinality(failed[S]) = 1
          /\ pc = [stage |-> next_stage(S), at |-> "begin"] )
        => /\ flag(S) \in checkpoint_file.data
           /\ has_log(S)
           /\ logs[S].state = "complete"
           /\ {"failed", "successful"} \subseteq DOMAIN logs[S]
           /\ logs[S].failed = 1
           /\ logs[S].successful = Cardinality(attempted[S]) - 1

ErrorLeavesCheckpointAsAtStageBegin ==
    [][ exit_status' = "error" /\ pc # Idle
        => /\ pc' = Idle
           /\ checkpoint_file' = ckpt0 ]_vars

\* C10: in a run with --force the output directory of a checkpointed stage
\* is emptied before the stage dispatches a unit: from then on, and after
\* the stage has committed, it holds exactly the files this execution
\* produced, and not a file that was in it before the run.
ForceRunStartsFromEmptyDirectory ==
    \A S \in CkptStages :
        ( /\ force
          /\ stage_state[S] \in {"Running", "Committed"}
          /\ ~At(S, "clean") )
        => /\ dirs[out_dir(S)] = produced[S]
           /\ Sentinel \notin dirs[out_dir(S)]

\* a forced run on a root whose directories held the sentinel has committed
\* Prune with a pruned record
ForceRunStartsFromEmptyDirectoryWitness ==
    /\ force
    /\ \A S \in CkptStages : Sentinel \in dirs0.dirs[out_dir(S)]
    /\ \A S \in CkptStages : stage_state[S] = "Committed"
    /\ produced["Prune"] # {}


\* C11: Combine runs in every run that reaches it, whatever the checkpoint
\* and --force; once it has run, combined/ holds exactly one directory per
\* directory of extracted/, combined/<id>/midi_output/<id>.mid exists exactly
\* when midi/<id>.mid exists, and nothing an earlier Combine merged is left.
CombineAlwaysRebuilds ==
    /\ pc # Idle /\ StageIndex(pc.stage) > StageIndex("Combine")
          => stage_state["Combine"] = "Committed"
    /\ stage_state["Combine"] = "Committed"
          => /\ dirs["combined"] = dirs["extracted"] \ {Sentinel}
             /\ combined_info = valid
             /\ \A id \in dirs["combined"] :
                   id \in combined_midi <=> id \in dirs["midi"]
             /\ combined_midi \subseteq dirs["combined"]

\* a later run rebuilt combined/: a directory merged by the earlier run is
\* gone, another one is there
CombineAlwaysRebuildsWitness ==
    /\ stage_state["Combine"] = "Committed"
    /\ dirs0.dirs["combined"] \ dirs["combined"] # {}
    /\ dirs["combined"] # {}


\* C12: a run without --force that starts on the output root of a complete
\* run (every flag true in the checkpoint file) and runs to its end leaves
\* the checkpoint mapping and the file set of every staging directory as
\* they were when it started, that is as the first run left them.
SecondRunChangesNothing ==
    [][ ( /\ exit_status' = "ok"
          /\ ~force
          /\ dirs0.checkpoint.state = "complete"
          /\ dirs0.checkpoint.data = {flag(S) : S \in CkptStages} )
        => /\ dirs' = dirs0.dirs
           /\ valid' = dirs0.valid
           /\ combined_info' = dirs0.combined_info
           /\ combined_midi' = dirs0.combined_midi
           /\ checkpoint_file' = dirs0.checkpoint ]_vars

\* the second run without --force is at its last step, on a root where the
\* first run left pruned records and a song whose download had failed
SecondRunChangesNothingWitness ==
    /\ At("Generate", "begin")
    /\ ~force
    /\ runs = 2
    /\ dirs0.checkpoint.data = {flag(S) : S \in CkptStages}
    /\ dirs["pruned"] \cap (1..NSongs) # {}
    /\ dirs["downloads"] \cap (1..NSongs) # 1..NSongs
    /\ stage_state["Combine"] = "Committed"


\* C13: a work unit of Download, Extract or Convert whose destination (the
\* zip, the song directory, the MIDI file) exists and is non-empty when the
\* unit is dispatched does no work, leaves the destination as it is and
\* counts as a success.  In a run without --force the destination exists at
\* dispatch exactly when it existed at run start.
ExistingDestinationIsSkipped ==
    ~force =>
        /\ \A u \in attempted["Download"] :
              song_id(u) \in dirs0.dirs["downloads"]
              => /\ song_id(u) \notin produced["Download"]
                 /\ u \notin failed["Download"]
                 /\ song_id(u) \in dirs["downloads"]
        /\ \A z \in attempted["Extract"] :
              z \in dirs0.valid
              => /\ z \notin produced["Extract"]
                 /\ z \notin failed["Extract"]
                 /\ z \in valid
        /\ \A a \in attempted["Convert"] :
              a \in dirs0.dirs["midi"]
              => /\ a \notin produced["Convert"]
                 /\ a \notin failed["Convert"]
                 /\ a \in dirs["midi"]


\* C14: download_map for a song whose zip is already in the download
\* directory returns True without a request, without a slot of the
\* semaphore and without touching the file; a download_all over a listing
\* whose zips are all present adds no file and reports True for every unit.
ExistingZipIsNotDownloaded ==
    LET present == {u \in Units : song_id(u) \in dirs0.dirs["downloads"]}
    IN  /\ \A u \in present :
              /\ task_state[u] \in {"none", "new", "done"}
              /\ u \notin requested
              /\ u \notin failed["Download"]
              /\ song_id(u) \notin produced["Download"]
              /\ song_id(u) \in dirs["downloads"]
              /\ task_state[u] = "done" => task_result[u] = TRUE
        /\ (dl_pc = "returned" /\ present = Units) =>
              /\ dirs["downloads"] = dirs0.dirs["downloads"]
              /\ semaphore = MAX_CONCURRENT_DOWNLOADS
              /\ \A i \in 1..Len(all_results) : all_results[i] = TRUE

\* download_all has returned on a directory that held every zip of the
\* listing: one True for each unit
ExistingZipIsNotDownloadedWitness ==
    /\ dl_pc = "returned"
    /\ dirs0.dirs["downloads"] = {song_id(u) : u \in Units}
    /\ Len(all_results) = NUnits
    /\ attempted["Download"] = Units


\* C15: every checkpointed stage that commits has written, before its flag
\* is persisted, a result log under the logs directory that enumerates one
\* outcome for each unit the stage attempted.
EveryCommitHasAResultLog ==
    \A S \in CkptStages :
        ( /\ stage_state[S] = "Committed"
          /\ flag(S) \in checkpoint_file.data )
        => /\ has_log(S)
           /\ logs[S].state = "complete"
           /\ S = "Extract" => logs[S].total_extracted = Cardinality(attempted[S])
           /\ S = "Convert" => logs[S].total_attempted = Cardinality(attempted[S])


\* C16 (as the code has it): the Generate block is entered exactly when
\* --generate is given, and only after Prune has committed or been skipped;
\* it has no checkpoint flag, so a run on a root whose five flags are true
\* enters it again; the other step without a flag is Combine, which such a
\* run executes too, while it skips the five checkpointed stages.
GenerateAndCombineHaveNoFlag ==
    /\ stage_state["Generate"] = "Running" \/ pc.stage = "Generate"
          => stage_state["Prune"] \in {"Committed", "Skipped"}
    /\ stage_state["Generate"] = "Running" <=> At("Generate", "work")
    /\ At("Generate", "work") => generate
    /\ checkpoint \cup checkpoint_file.data \subseteq {flag(S) : S \in CkptStages}
    /\ ( /\ ~force
         /\ loaded = {flag(S) : S \in CkptStages}
         /\ pc.stage = "Generate" )
       => /\ \A S \in CkptStages : stage_state[S] = "Skipped"
          /\ stage_state["Combine"] = "Committed"

\* the second run, on a root whose five flags are true, is inside the
\* Generate block
GenerateAndCombineHaveNoFlagWitness ==
    /\ At("Generate", "work")
    /\ generate
    /\ ~force
    /\ runs = 2
    /\ loaded = {flag(S) : S \in CkptStages}

\* C16: the Generate block is entered only when --generate is given and
\* only after Prune has committed or been skipped, and Generate is the only
\* stage without a checkpoint flag: in a run on a root whose flags are all
\* true, no stage other than Generate executes.
GenerateIsTheOnlyStageWithoutFlag ==
    /\ stage_state["Generate"] = "Running" \/ pc.stage = "Generate"
          => stage_state["Prune"] \in {"Committed", "Skipped"}
    /\ At("Generate", "work") => generate
    /\ ( /\ ~force
         /\ loaded = {flag(S) : S \in CkptStages} )
       => \A S \in Stages \ {"Generate"} :
              stage_state[S] \in {"NotStarted", "Skipped"}


\* C17: clean_directory(d, keep_structure=True) on an existing directory
\* leaves d existing and without entries; with keep_structure=False d no
\* longer exists; when d does not exist the call changes nothing; no other
\* directory is touched.
CleanDirectoryContract ==
    (cleanup.call = "clean_directory" /\ cleanup.at = "done") =>
        LET d == cleanup.directory
        IN  IF d \in dirs0.exists
            THEN /\ cleanup.keep_structure => d \in exists /\ dirs[d] = {}
                 /\ ~cleanup.keep_structure => d \notin exists /\ dirs[d] = {}
                 /\ \A e \in CleanTargets \ {d} :
                       /\ dirs[e] = dirs0.dirs[e]
                       /\ e \in exists <=> e \in dirs0.exists
                 /\ checkpoint_file = dirs0.checkpoint
            ELSE Snapshot = dirs0

\* clean_directory(d, keep_structure=False) has removed a directory that
\* held files
CleanDirectoryContractWitness ==
    /\ cleanup.call = "clean_directory"
    /\ cleanup.at = "done"
    /\ ~cleanup.keep_structure
    /\ cleanup.directory \in dirs0.exists
    /\ dirs0.dirs[cleanup.directory] # {}
    /\ cleanup.directory \notin exists

\* C18: the cleanup command with --remove-structure removes the directories
\* of the selected targets themselves, whether all targets are selected or a
\* subset is given with --targets.
RemoveStructureRemovesDirectories ==
    ( /\ cleanup.call = "main"
      /\ cleanup.at = "done"
      /\ cleanup.remove_structure )
    => \A t \in cleanup.selected : t \notin exists


\* C19: extract_map returns a result with has_errors true for a corrupted
\* archive or one without info.dat and never raises; extract_all returns
\* exactly the results of the archives whose extraction had no errors, and a
\* failing archive neither prevents nor alters the extraction of the valid
\* ones.
ExtractAllReturnsTheErrorFree ==
    /\ At("Extract", "work") =>
          /\ attempted["Extract"] \subseteq zip_files
          /\ extracted_maps = attempted["Extract"] \ failed["Extract"]
    /\ At("Extract", "log_open") =>
          /\ attempted["Extract"] = zip_files
          /\ extracted_maps = zip_files \ failed["Extract"]
          /\ \A z \in extracted_maps : z \in dirs["extracted"] /\ z \in valid
          /\ \A z \in failed["Extract"] : z \notin valid

\* extract_all has returned after one archive failed and another one was
\* extracted
ExtractAllReturnsTheErrorFreeWitness ==
    /\ At("Extract", "log_open")
    /\ failed["Extract"] # {}
    /\ extracted_maps # {}


\* the messages that contain 'Invalid audio file' (convert_audio, lines 93-98)
InvalidAudioFile ==
    {"Invalid audio file format",
     "Invalid audio file: Failed to read file header"}

\* C20: convert_audio raises FileNotFoundError when the input file does not
\* exist and an error containing 'Invalid audio file' when the first four
\* bytes are neither 'OggS' nor 'RIFF'; in both cases it acquires no
\* concurrency slot and creates or modifies no file in the output directory.
BadInputRaisesBeforeTheSemaphore ==
    [][\A a \in DOMAIN audio_input :
          ( /\ audio_input[a] = "unread"
            /\ audio_input'[a] \in {"missing", "invalid"} )
          => /\ cv_semaphore' = cv_semaphore
             /\ dirs' = dirs
             /\ cv_state'[a] = "done"
             /\ Len(results') = Len(results) + 1
             /\ results'[Len(results')].kind = "Exception"
             /\ audio_input'[a] = "missing" =>
                   results'[Len(results')].message = "Input file not found"
             /\ audio_input'[a] = "invalid" =>
                   results'[Len(results')].message \in InvalidAudioFile]_vars

\* convert_audio has met a missing file and a file with a bad header
BadInputRaisesBeforeTheSemaphoreWitness ==
    /\ \E a \in DOMAIN audio_input :
          audio_input[a] = "missing" /\ cv_state[a] = "done"
    /\ \E a \in DOMAIN audio_input :
          audio_input[a] = "invalid" /\ cv_state[a] = "done"
    /\ \E a \in DOMAIN audio_input : audio_input[a] = "audio"


\* C21: convert_all returns exactly one outcome per audio file found under
\* the songs directory (an empty list when there is none), each outcome the
\* path <output_dir>/<folder>.mid of a written MIDI file or the captured
\* exception; the conversion log run_pipeline writes has
\* total_attempted = successful + failed = number of audio files found.
OneOutcomePerAudioFile ==
    /\ cv_pc = "returned" =>
          /\ Len(results) = Cardinality(audio_files)
          /\ \A i \in 1..Len(results) :
                \/ /\ results[i].kind = "Path"
                   /\ results[i].folder \in audio_files
                   /\ results[i].folder \in dirs["midi"]
                   /\ \A j \in 1..Len(results) :
                         (j # i /\ results[j].kind = "Path")
                         => results[j].folder # results[i].folder
                \/ results[i].kind = "Exception"
    /\ (At("Convert", "commit") \/ At("Convert", "save")) =>
          /\ logs["Convert"].state = "complete"
          /\ logs["Convert"].total_attempted
                = logs["Convert"].successful + logs["Convert"].failed
          /\ logs["Convert"].total_attempted = Cardinality(audio_files)

\* the Convert block has written the log of a convert_all in which one file
\* was converted and another one failed
OneOutcomePerAudioFileWitness ==
    /\ At("Convert", "commit")
    /\ logs["Convert"].successful > 0
    /\ logs["Convert"].failed > 0


\* the beatmaps of a list of beatmap sets, in info order
RECURSIVE Flatten(_)
Flatten(sets) ==
    IF sets = <<>> THEN <<>>
    ELSE sets[1]._difficultyBeatmaps \o Flatten(Tail(sets))
\* the beatmaps of the record handed to prune_map that have the target
\* difficulty, in info order
MatchingBeatmaps ==
    LET d == pruner.target_difficulty
        same(diff_map) == lower(diff_map._difficulty) = lower(d)
    IN  SelectSeq(Flatten(pruner.map_data.info._difficultyBeatmapSets), same)
\* prune_map has returned
PruneMapReturned ==
    /\ pruner.at = "returned"
    /\ pruner.map_data # <<>>
\* the parts of C22 that do not name the key of the difficulties mapping
PrunedInfoAndFields ==
    LET out == pruner.pruned_data
        sets == out.info._difficultyBeatmapSets
    IN  /\ \A i \in 1..Len(sets) : sets[i]._difficultyBeatmaps # <<>>
        /\ Flatten(sets) = MatchingBeatmaps
        /\ Cardinality(DOMAIN out.difficulties) <= 1
        /\ \A f \in DOMAIN out.difficulties :
              /\ f \in DOMAIN pruner.map_data.difficulties
              /\ out.difficulties[f]
                    = pruner.map_data.difficulties[f]
                         \cap {"_version", "_notes", "bombNotes", "_obstacles"}
              /\ out.difficulties[f] \cap {"_events", "_customData", "_waypoints"} = {}
        /\ MatchingBeatmaps = <<>> =>
              sets = <<>> /\ DOMAIN out.difficulties = {}

\* C22 (as stated): prune_map(m, d) returns an info whose beatmap sets hold
\* only the beatmaps of difficulty d ignoring case (sets without one are
\* omitted) and a difficulties mapping with at most one entry, keyed by the
\* _beatmapFilename of the first matching beatmap in info order, holding only
\* the fields with notes, obstacles or version in their name; with no
\* beatmap of difficulty d the sets are [] and the difficulties {}.
PruneMapKeyIsFirstMatch ==
    PruneMapReturned =>
        /\ PrunedInfoAndFields
        /\ \A f \in DOMAIN pruner.pruned_data.difficulties :
              f = MatchingBeatmaps[1]._beatmapFilename

\* C22 (amended): as above, but the entry is keyed by the file name of the
\* first beatmap set's first matching beatmap among the sets where that
\* beatmap has a file name.
PruneMapKeyIsFirstNamedMatch ==
    PruneMapReturned =>
        /\ PrunedInfoAndFields
        /\ LET sets == pruner.pruned_data.info._difficultyBeatmapSets
               named == {i \in 1..Len(sets) :
                           sets[i]._difficultyBeatmaps[1]._beatmapFilename # None}
           IN  \A f \in DOMAIN pruner.pruned_data.difficulties :
                  /\ named # {}
                  /\ \E i \in named :
                        /\ \A j \in named : i <= j
                        /\ f = sets[i]._difficultyBeatmaps[1]._beatmapFilename

\* prune_map has dropped a beatmap of another difficulty and returned one
\* difficulty entry without _events, _customData and _waypoints
PruneMapKeyIsFirstNamedMatchWitness ==
    /\ PruneMapReturned
    /\ DOMAIN pruner.pruned_data.difficulties # {}
    /\ Len(Flatten(pruner.map_data.info._difficultyBeatmapSets))
          > Len(MatchingBeatmaps)
    /\ \E f \in DOMAIN pruner.pruned_data.difficulties :
          pruner.pruned_data.difficulties[f] # pruner.map_data.difficulties[f]


\* C23: process_all writes <output_dir>/<name>.json for an input record
\* exactly when the record pruned to the target difficulty has a non-empty
\* _difficultyBeatmapSets and a non-empty difficulties mapping; a record
\* that lacks the difficulty, or fails to load or prune, produces no output
\* file and does not stop the processing of the remaining records.
WrittenExactlyWhenDifficultyPresent ==
    LET d == pruner.target_difficulty
        done == DOMAIN pruner.input_dir \ pruner.todo
        record(f) == pruner.input_dir[f]
        same(diff_map) == lower(diff_map._difficulty) = lower(d)
        loads(f) == record(f) \notin {Unreadable, NotARecord}
        lacks(f) ==
            \A i \in 1..Len(Flatten(record(f).info._difficultyBeatmapSets)) :
               ~same(Flatten(record(f).info._difficultyBeatmapSets)[i])
        present(f) ==
            /\ loads(f)
            /\ prune_map(record(f), d).info._difficultyBeatmapSets # <<>>
            /\ DOMAIN prune_map(record(f), d).difficulties # {}
    IN  pruner.input_dir # <<>> =>
           /\ pruner.written = {f \in done : present(f)}
           /\ \A f \in done : (~loads(f) \/ lacks(f)) => f \notin pruner.written
           /\ pruner.output_dir \ pruner.written \subseteq {1}
           /\ pruner.at = "returned" => pruner.todo = {}
           /\ pruner.todo # {} => ENABLED NextPrune

\* process_all has returned after one file that could not be loaded, one
\* record written and nothing else
WrittenExactlyWhenDifficultyPresentWitness ==
    /\ pruner.at = "returned"
    /\ pruner.input_dir # <<>>
    /\ pruner.reported # {}
    /\ pruner.written # {}
    /\ pruner.written \cup pruner.reported = DOMAIN pruner.input_dir


\* C24: format_map raises and returns no record for a map directory without
\* info.dat; format_all writes <id>.json only for directories that hold an
\* info.dat, and every record it writes carries the chart metadata; a directory
\* with info.dat but no difficulty file and no MIDI file yields a record whose
\* difficulties are {} and whose midi_data is None.
NoRecordWithoutInfoDat ==
    /\ (formatter.call = "format_map" /\ formatter.at = "returned") =>
          LET map_dir == formatter.map_dir
              result == formatter.result
          IN  /\ map_dir.info_dat = "absent" => result.kind = "raised"
              /\ (/\ map_dir.info_dat = "json"
                  /\ map_dir.dat_files \subseteq {"Info.dat"}
                  /\ map_dir.midi = "none") =>
                    /\ result.kind = "record"
                    /\ result.difficulties = {}
                    /\ result.midi_data = None
    /\ formatter.call = "format_all" =>
          /\ \A name \in formatter.written :
                /\ formatter.songs_dir[name].is_dir
                /\ formatter.songs_dir[name].info_dat # "absent"
          /\ \A i \in 1..Len(formatter.result) :
                /\ formatter.result[i].info = "json"
                /\ formatter.result[i].song_id \in formatter.written
NoRecordWithoutInfoDatWitness ==
    /\ formatter.call = "format_all" /\ formatter.at = "returned"
    /\ formatter.written = {1}
    /\ formatter.songs_dir[1].dat_files = {}
    /\ formatter.songs_dir[1].midi = "none"
    /\ formatter.result[1].difficulties = {}
    /\ formatter.result[1].midi_data = None
    /\ formatter.songs_dir[2].is_dir
    /\ formatter.songs_dir[2].info_dat = "absent"


\* C25: whenever the LLM call returns a map object holding the _notes,
\* _obstacles and _events collections the tool schema requires,
\* generate_full_set returns exactly three entries named easy, normal and
\* expert and has written one <Difficulty>Standard.dat per entry plus an
\* info.dat listing 3 difficulty beatmaps.
FullSetFromSchemaObject ==
    ( /\ generator.at \in {"returned", "raised"}
      /\ SchemaKeys \subseteq {generator.maps_data[i] :
                                  i \in 1..Len(generator.maps_data)} )
    => /\ generator.at = "returned"
       /\ Len(generator.difficulty_files) = 3
       /\ {generator.difficulty_files[i] : i \in 1..3} = RankedNames
       /\ {diff_filename(n) : n \in RankedNames} \subseteq generator.output_path
       /\ generator.info_dat # "None"
       /\ Len(generator.info_dat) = 3


\* C26: every outcome convert_all returns carries the identifier of the
\* audio file it belongs to (and every outcome of download_all that of its
\* song), so that successes and failures can be matched to their units
\* without relying on positions in the returned list.
OutcomesCarryTheirUnit ==
    cv_pc = "returned" =>
        \A i \in 1..Len(results) : results[i].folder \in audio_files


\* C27: the Download flag is persisted only if, in this run, a download was
\* attempted (or skipped as already present) for every entry of every
\* requested page (the general rule: a stage's flag is persisted only if
\* every work unit of the stage was attempted in this run).
FlagOnlyAfterEveryUnitAttempted ==
    ( /\ stage_state["Download"] = "Committed"
      /\ flag("Download") \in checkpoint_file.data )
    => attempted["Download"] = {u \in Units : listing[u].page < max_pages}


\* C28: every download task created by process_page has returned before
\* download_all returns (so none is pending or running when the Download
\* flag is persisted and Extract begins), for every page content, including a
\* page whose processing raises after some tasks were already created.
NoTaskOutlivesDownloadAll ==
    dl_pc = "returned" => \A u \in Units : task_state[u] \in {"none", "done"}


\* C29: within one stage execution no two work units that run at the same
\* time write to the same destination path: download tasks in their request
\* have distinct <song_id>.zip paths and conversions in progress have
\* distinct <folder>.mid paths, for every page listing and every layout of
\* the audio files under the extracted directory.
DisjointDestinations ==
    /\ \A u, v \in Units :
          ( /\ u # v
            /\ task_state[u] = "requesting"
            /\ task_state[v] = "requesting" )
          => song_id(u) # song_id(v)
    /\ \A a, b \in DOMAIN cv_state :
          ( /\ a # b
            /\ cv_state[a] = "converting"
            /\ cv_state[b] = "converting" )
          => generate_output_path(a) # generate_output_path(b)


\* C30: after a stage was interrupted part-way, a rerun with force=false
\* starts the stage from a reset output directory: once the rerun has
\* committed Download no zip left partially written by the interrupted
\* attempt is in the downloads directory, and no such zip made its unit be
\* skipped and counted as a success.
RerunLeavesNoPartialFile ==
    ( /\ ~force
      /\ stage_state["Download"] = "Committed" )
    => /\ truncated_zips = {}
       /\ \A u \in Units :
             song_id(u) \in truncated =>
                ~(task_state[u] = "done" /\ task_result[u] /\ u \notin requested)


\* C31: at every instant, after a crash at any point of a force or non-force
\* run included, the checkpoint on disk and the per-stage results logs
\* disagree about at most one stage: a stage whose log describes a finished
\* execution while its flag is not set, or whose flag is set while its log
\* is missing or incomplete.  Stated for the two stages that write a log.
CheckpointAndLogsDisagreeOnOneStage ==
    LET finished(S) == logs[S].state = "complete"
        set(S) == flag(S) \in checkpoint_file.data
        disagree == {S \in {"Extract", "Convert"} : finished(S) # set(S)}
    IN  Cardinality(disagree) <= 1


\* the flags of the checkpoint on disk, in stage order
FlagOrder == <<"Download", "Extract", "Convert", "Format", "Prune">>

FlaggedStageHasItsLog ==
    \A S \in {"Extract", "Convert"} :
        flag(S) \in checkpoint_file.data => logs[S].state = "complete"


\* C34: clean_pipeline_outputs removes pipeline_checkpoint.json before it
\* cleans any directory, whatever the targets, so while the command is
\* cleaning and when it ends no checkpoint flag is on disk, and a run
\* without --force that starts on the root the command left loads no flag
\* and skips no stage.
NoFlagSurvivesCleanup ==
    [][ /\ ( /\ cleanup'.call = "main"
             /\ \/ cleanup'.at = "loop"
                \/ cleanup.at # "done" /\ cleanup'.at = "done" )
           => checkpoint_file'.data = {}
        /\ ( /\ cleanup.at = "done" /\ cleanup.call = "main"
             /\ pc = Idle /\ pc' # Idle /\ ~force'
             /\ checkpoint_file.data = {} )
           => loaded' = {}
        /\ (cleanup'.at = "done" /\ pc' # Idle /\ ~force' /\ loaded' = {})
           => \A S \in CkptStages : stage_state'[S] # "Skipped" ]_vars


\* C35: clean_pipeline_outputs with an explicit list of targets changes the
\* contents of only the directories the list names: every other directory
\* keeps exactly its files, an unknown name changes no directory, and no
\* directory is removed, the cleaned ones included.
OnlyNamedTargetsChange ==
    [][ ( /\ cleanup'.call \in {"main", "clean_pipeline_outputs"}
          /\ ~cleanup'.whole
          /\ cleanup'.at \in {"loop", "done"} )
        => /\ \A d \in CleanTargets \ cleanup'.selected : dirs'[d] = dirs[d]
           /\ "extracted" \notin cleanup'.selected => valid' = valid
           /\ "combined" \notin cleanup'.selected
                 => combined_info' = combined_info /\ combined_midi' = combined_midi
           /\ "logs" \notin cleanup'.selected => logs' = logs
           /\ exists' = exists
           /\ (cleanup.at = "loop" /\ first_target(cleanup.todo) = UnknownTarget)
                 => UNCHANGED <<dirs, valid, combined_info, combined_midi, logs>>
      ]_vars

OnlyNamedTargetsChangeWitness ==
    /\ cleanup.call = "clean_pipeline_outputs" /\ cleanup.at = "done"
    /\ cleanup.selected = {"midi", "logs", UnknownTarget}
    /\ exists = CleanTargets \cup {BaseDir}
    /\ dirs["midi"] = {} /\ logs = NoLogs
    /\ \A d \in CleanTargets \ {"midi", "logs"} : dirs[d] = 1..NSongs
    /\ valid = 1..NSongs


FailedDownloadLeavesNoZip ==
    [][ /\ \A u \in Units :
              u \in failed'["Download"] \ failed["Download"]
                 => /\ task_state'[u] = "done" /\ ~task_result'[u]
                    /\ song_id(u) \notin dirs'["downloads"]
        /\ dl_pc' = "returned"
              => \A z \in dirs'["downloads"] :
                    \/ z \in dirs0.dirs["downloads"]
                    \/ \E u \in Units : /\ song_id(u) = z
                                        /\ task_state'[u] = "done"
                                        /\ task_result'[u] ]_vars

FailedDownloadLeavesNoZipWitness ==
    /\ dl_pc = "returned"
    /\ dirs0.dirs["downloads"] = {2}
    /\ failed["Download"] = {1, NUnits}
    /\ dirs["downloads"] = 2..(NUnits - 1)
    /\ Len(all_results) = NUnits
    /\ ~all_results[1] /\ all_results[2] /\ all_results[3]


\* C38 (as the code has it): pruning the record prune_map(m, d) again to a
\* difficulty that equals d when both are compared in lower case returns
\* the same record; pruning it to a difficulty that differs from d in lower
\* case returns an empty _difficultyBeatmapSets and empty difficulties.
PruneAgainUpToCase ==
    pruner.at = "returned again"
    => IF lower(pruner.second_difficulty) = lower(pruner.target_difficulty)
       THEN pruner.pruned_again = pruner.pruned_data
       ELSE /\ pruner.pruned_again.info._difficultyBeatmapSets = <<>>
            /\ DOMAIN pruner.pruned_again.difficulties = {}

\* a record with a file for Expert is pruned to "expert" and the result,
\* not empty, is pruned to "Expert"
PruneAgainUpToCaseWitness ==
    /\ pruner.at = "returned again"
    /\ pruner.target_difficulty = "expert"
    /\ pruner.second_difficulty = "Expert"
    /\ DOMAIN pruner.pruned_data.difficulties = {"ExpertOneSaber.dat"}
    /\ pruner.pruned_again = pruner.pruned_data
    /\ pruner.map_data # pruner.pruned_data

\* C38 as stated: prune_map(prune_map(m, d), d) equals prune_map(m, d), and
\* pruning that result to any other difficulty d' yields an empty
\* _difficultyBeatmapSets and an empty difficulties mapping.
PruneAgainOtherIsEmpty ==
    pruner.at = "returned again"
    => IF pruner.second_difficulty = pruner.target_difficulty
       THEN pruner.pruned_again = pruner.pruned_data
       ELSE /\ pruner.pruned_again.info._difficultyBeatmapSets = <<>>
            /\ DOMAIN pruner.pruned_again.difficulties = {}

=============================================================================
